---- MODULE Spec2Model ----
(***************************************************************************)
(* Model of the benchmark streaming coordinator                            *)
(* (global_bench GlobalBenchmarkStreamService.stream), the SSE client that *)
(* feeds it (aiter_sse_events) and the run repository it writes to         *)
(* (BenchmarkRepositoryPG).                                                *)
(*                                                                         *)
(* One run is modelled: one call of stream() consumed to its end by the    *)
(* HTTP response.  The worker, the client and the failures of the          *)
(* repository, of the worker connection and of the scoring thread are the  *)
(* environment: the worker sends any sequence of events of bounded length, *)
(* the client may disconnect at any moment, and every repository call may  *)
(* raise.                                                                  *)
(*                                                                         *)
(* Two further specifications share the module.  ScoreSpec runs one call   *)
(* of score_sqlite (sqlite_executor.execute twice, then the comparison)    *)
(* on every dataset and pair of queries of the bounds.  WorkerSpec runs    *)
(* the requests of /bench/complete/stream of one worker (hf_bench) against *)
(* its ModelStore and GpuRuntime, each blocking call in a pool thread.     *)
(*                                                                         *)
(* The other specifications each run one part on its own: RouteSpec the    *)
(* coordinator's route in front of stream(), JobSpec the job queue of the  *)
(* worker, AdmitSpec the admission of a model reference (parse_hf_input,   *)
(* require_revision), ExecSpec one call of ExecutionService.execute,       *)
(* TotSpec the frames of one complete-benchmark response of the worker,    *)
(* ExtractSpec extract_sql, CatalogSpec the pages of list_questions,       *)
(* DiskSpec the directories of ModelStore and their listing, TypedSpec     *)
(* score_sqlite on rows of several types, and FetchSpec the fetchmany loop *)
(* of the two executors.                                                   *)
(***************************************************************************)
EXTENDS Integers, Sequences, FiniteSets, TLC

(***************************************************************************)
(* Bounds.                                                                 *)
(***************************************************************************)
\* The worker sends at most MaxUp events on its stream.
MaxUp == 3
\* A table of the dataset holds at most MaxRows rows.
MaxRows == 2
\* At most MaxReq requests of /bench/complete/stream reach one worker.
MaxReq == 2

(***************************************************************************)
(* Values.  A JSON value of a payload is a string; two sentinels stand for *)
(* an absent key (Python None) and for a value that is no string.          *)
(***************************************************************************)
NoneVal == "<None>"
NonStr == "<int>"

IsStr(x) == x \notin {NoneVal, NonStr}

\* Python truthiness, as used by `base.get("db_id") or db_id`.
Truthy(x) == x \notin {NoneVal, ""}

\* The run id an upstream payload carries before it is tagged (none).
NoRunId == ""
\* The values str(uuid.uuid4()) may have.
UUIDs == {"uuid-a"}

\* The request of the run (the arguments of stream()).
ReqModelId == "org/model"
ReqRevision == "main"
ReqDbId == "shop"

\* select_worker_url() of the configured selector, and the URL built from it.
WorkerBase == "http://localhost:8001"
WorkerUrl(base) == <<base, "/bench/complete/stream">>

(***************************************************************************)
(* The values of result rows.  A value is an SQL integer or an SQL text,   *)
(* held by the text str() gives for it, or NULL (Python None).             *)
(***************************************************************************)
IntV(s) == [type |-> "int", text |-> s]
TextV(s) == [type |-> "text", text |-> s]
NullV == [type |-> "null", text |-> ""]

\* The rows a table of the dataset may hold.
TableRows == { <<IntV("1"), IntV("3")>>, <<IntV("2"), IntV("1")>>, <<IntV("1"), NullV>> }

RECURSIVE SeqsUpTo(_, _)
\* The sequences of at most n elements of S.
SeqsUpTo(S, n) ==
    IF n = 0 THEN { <<>> }
    ELSE LET shorter == SeqsUpTo(S, n - 1)
         IN  shorter \cup { Append(s, x) : s \in shorter, x \in S }

\* The tables t and u of a dataset with no row.
EmptyTables == [t |-> <<>>, u |-> <<>>]

(***************************************************************************)
(* The SQL sandbox as seen by the scorer: the outcome of executing a code  *)
(* string on a dataset.  The dataset "shop" exists and holds the tables t  *)
(* and u.  "SELECT * FROM t" and "SELECT * FROM u" give the rows of the    *)
(* table, "SELECT 1" one row, the empty statement runs and gives no row,   *)
(* "SELECT slow" runs longer than timeout_ms, "SELECT * FROM v" names a    *)
(* table that does not exist, "SELECT 1; SELECT 1" is two statements, and  *)
(* any other text is a syntax error; a dataset that does not exist cannot  *)
(* be opened.                                                              *)
(***************************************************************************)
Datasets == {"shop"}

ExecOk(rows) == [success |-> TRUE, output |-> rows, error |-> NoneVal]
ExecErr(msg) == [success |-> FALSE, output |-> <<>>, error |-> msg]

\* SqliteExecutor.execute on a dataset whose tables are `tables`: the results
\* it may return.  "SELECT heavy" reads t and runs for about timeout_ms, so
\* the progress handler may or may not interrupt it; "SELECT random()" gives
\* one row that differs from one execution to the next.
SqliteOutcomes(tables, code, db_id) ==
    IF db_id \notin Datasets THEN { ExecErr("unable to open database file") }
    ELSE IF code = "SELECT * FROM t" THEN { ExecOk(tables.t) }
    ELSE IF code = "SELECT * FROM u" THEN { ExecOk(tables.u) }
    ELSE IF code = "SELECT heavy" THEN { ExecOk(tables.t), ExecErr("timeout") }
    ELSE IF code = "SELECT random()"
         THEN { ExecOk(<< <<IntV("1")>> >>), ExecOk(<< <<IntV("2")>> >>) }
    ELSE IF code = "SELECT 1" THEN { ExecOk(<< <<IntV("1")>> >>) }
    ELSE IF code = "" THEN { ExecOk(<<>>) }
    ELSE IF code = "SELECT slow" THEN { ExecErr("timeout") }
    ELSE IF code = "SELECT * FROM v" THEN { ExecErr("no such table: v") }
    ELSE IF code = "SELECT 1; SELECT 1"
         THEN { ExecErr("ProgrammingError: You can only execute one statement at a time.") }
    ELSE { ExecErr("syntax error") }

\* The result of a statement that has one outcome.
SqliteExecuteOn(tables, code, db_id) ==
    CHOOSE r \in SqliteOutcomes(tables, code, db_id) : TRUE

\* The absent scoring verdict (no "scoring" key in the payload).
NoScoring ==
    [present |-> FALSE, pred_exec_success |-> FALSE, gold_exec_success |-> FALSE,
     is_correct |-> "unknown", pred_error |-> NoneVal, gold_error |-> NoneVal,
     rows_pred |-> -1, rows_gold |-> -1, match_kind |-> ""]

\* _normalize_rows: every value of every row becomes its str(), None "NULL".
NormalizeValue(x) == IF x.type = "null" THEN "NULL" ELSE x.text
NormalizeRows(rows) ==
    [i \in 1..Len(rows) |-> [j \in 1..Len(rows[i]) |-> NormalizeValue(rows[i][j])]]

\* The strings of the normalised rows in Python's order of str (by code
\* point: the digits come before the capital letters).
CodePointOrder == <<"1", "2", "3", "NULL">>
StrLess(a, b) ==
    \E i, j \in 1..Len(CodePointOrder) :
        CodePointOrder[i] = a /\ CodePointOrder[j] = b /\ i < j

RECURSIVE TupleLess(_, _)
\* Python's order of tuples: by the first place where they differ, a proper
\* prefix first.
TupleLess(a, b) ==
    IF b = <<>> THEN FALSE
    ELSE IF a = <<>> THEN TRUE
    ELSE IF Head(a) = Head(b) THEN TupleLess(Tail(a), Tail(b))
    ELSE StrLess(Head(a), Head(b))

RECURSIVE InsertSorted(_, _)
InsertSorted(r, rows) ==
    IF rows = <<>> THEN <<r>>
    ELSE IF TupleLess(Head(rows), r) THEN <<Head(rows)>> \o InsertSorted(r, Tail(rows))
    ELSE <<r>> \o rows

\* A list left in the order it has.
sorted_Unsorted(rows) == rows

RECURSIVE sorted(_)
\* sorted(rows)
sorted(rows) ==
    IF rows = <<>> THEN <<>> ELSE InsertSorted(Head(rows), sorted(Tail(rows)))

\* A verdict on failed executions that keeps no error text.
ScoredResult_ErrorsDropped(pred, gold) ==
    [present |-> TRUE,
     pred_exec_success |-> pred.success, gold_exec_success |-> gold.success,
     is_correct |-> "unknown", pred_error |-> NoneVal, gold_error |-> NoneVal,
     rows_pred |-> -1, rows_gold |-> -1, match_kind |-> "exec_failed"]

\* A verdict that counts a failed execution as a wrong answer.
ScoredResult_FailedIsFalse(pred, gold) ==
    [present |-> TRUE,
     pred_exec_success |-> pred.success, gold_exec_success |-> gold.success,
     is_correct |-> IF pred.success /\ gold.success /\ pred.output = gold.output
                    THEN "true" ELSE "false",
     pred_error |-> pred.error, gold_error |-> gold.error,
     rows_pred |-> IF pred.success /\ gold.success THEN Len(pred.output) ELSE -1,
     rows_gold |-> IF pred.success /\ gold.success THEN Len(gold.output) ELSE -1,
     match_kind |-> IF pred.success /\ gold.success
                    THEN "sorted_string_rows" ELSE "exec_failed"]

\* A verdict that takes two empty result sets for a wrong answer.
ScoredResult_EmptyIsFalse(pred, gold) ==
    [present |-> TRUE,
     pred_exec_success |-> pred.success, gold_exec_success |-> gold.success,
     is_correct |-> IF ~pred.success \/ ~gold.success THEN "unknown"
                    ELSE IF pred.output # <<>> /\ pred.output = gold.output
                    THEN "true" ELSE "false",
     pred_error |-> pred.error, gold_error |-> gold.error,
     rows_pred |-> IF pred.success /\ gold.success THEN Len(pred.output) ELSE -1,
     rows_gold |-> IF pred.success /\ gold.success THEN Len(gold.output) ELSE -1,
     match_kind |-> IF pred.success /\ gold.success
                    THEN "sorted_string_rows" ELSE "exec_failed"]

\* score_sqlite from the two execution results on: the verdict.
ScoredResult(pred, gold) ==
    IF ~pred.success \/ ~gold.success
    THEN [present |-> TRUE,
          pred_exec_success |-> pred.success,
          gold_exec_success |-> gold.success,
          is_correct |-> "unknown",
          pred_error |-> pred.error, gold_error |-> gold.error,
          rows_pred |-> -1, rows_gold |-> -1,
          match_kind |-> "exec_failed"]
    ELSE LET p == sorted(NormalizeRows(pred.output))
             g == sorted(NormalizeRows(gold.output))
         IN  [present |-> TRUE,
              pred_exec_success |-> TRUE, gold_exec_success |-> TRUE,
              is_correct |-> IF p = g THEN "true" ELSE "false",
              pred_error |-> NoneVal, gold_error |-> NoneVal,
              rows_pred |-> Len(pred.output), rows_gold |-> Len(gold.output),
              match_kind |-> "sorted_string_rows"]

(***************************************************************************)
(* Payloads and events.  A payload is the JSON object of an event; `n` is  *)
(* the rest of the object, which the coordinator never reads (here the     *)
(* ordinal of the event on the worker's stream, 0 for an object built by   *)
(* the coordinator), and `info` the worker_url of meta or the text of an   *)
(* error, as a tuple of strings.                                           *)
(***************************************************************************)
Payload(rid, n, index, sql, gold, db, info) ==
    [run_id |-> rid, n |-> n, index |-> index, sql |-> sql, gold_sql |-> gold,
     db_id |-> db, scoring |-> NoScoring, info |-> info]

NoPayload == Payload(NoRunId, 0, -1, NoneVal, NoneVal, NoneVal, <<>>)

\* SseEvent
SseEvent(event, data) == [event |-> event, data |-> data]
NoEvent == SseEvent("", NoPayload)

\* sse(event, data): the frame sent downstream.
sse(event, data) == [event |-> event, data |-> data]

\* {**ev.data, "run_id": str(run_id)}
Tag(data, rid) == [data EXCEPT !.run_id = rid]

\* Kinds of events that have no branch of their own in stream(): the workers
\* of the repository send "error" before "done" when a job fails.
PassthroughKinds == {"error", "meta"}

\* The (sql, gold_sql, db_id) of the result events the worker may send.
ResultShapes ==
    { <<"SELECT 1", "SELECT 1", "shop">>,
      <<"", "SELECT 1", NoneVal>>,
      <<NoneVal, "SELECT 1", "shop">>,
      <<"SELEC", "SELECT 1", NonStr>> }

VARIABLES
    pc,            \* position of the coordinator in stream()
    run_id,        \* run_id
    final_status,  \* final_status
    ev,            \* the event taken from the SSE client
    base,          \* the payload being persisted and emitted
    q,             \* aiter_sse_events: the asyncio queue (None sentinel last)
    received,      \* history: the events the producer has read from the worker
    producer,      \* "idle", "running", "ended" (None sentinel put), "failed"
    disconnected,  \* the client has gone: request.is_disconnected() is true
    bench_runs,    \* the row of the run in bench_runs
    bench_events,  \* the rows of bench_events, in insertion order
    bench_items,   \* the rows of bench_items, in insertion order
    downstream,    \* the frames yielded to the caller
    endRunCalls,   \* history: number of calls of repo.end_run
    scoreCalls,    \* history: the (db_id, pred_sql, gold_sql) given to score_sqlite
    failedAt,      \* history: the step at which an exception was raised, "" if none
    discAt,        \* history: the phase of the run when the client went, "" if here
    questions,     \* the (sql, gold_sql, db_id) of the results the worker may send
    tables,        \* the rows of the tables t and u of the dataset "shop"
    score_pc,      \* position of a call of score_sqlite made on its own
    score_args,    \* its arguments <<db_id, pred_sql, gold_sql>>
    score_pred,    \* pred: the result of executing pred_sql
    score_gold,    \* gold: the result of executing gold_sql
    score_ret,     \* the ScoredResult it returned
    req,           \* worker: the requests of complete_benchmark_stream
    dirs,          \* ModelStore: the (model_id, revision) whose directory exists
    marker,        \* ModelStore: the (model_id, revision) whose .READY exists
    writers,       \* ModelStore: the requests inside snapshot_download, by pair
    completed,     \* history: the pairs a snapshot_download has returned for
    rt_key,        \* GpuRuntime._key
    rt_tokenizer,  \* GpuRuntime._tokenizer
    rt_model,      \* GpuRuntime._model
    job,           \* the requests of /bench/stream and their BenchJob
    jq,            \* JobQueue.queue: the jobs put and not yet taken
    loop,          \* the task of JobQueue.start_worker: its position and job
    http,          \* the request of the coordinator's /bench/complete/stream
    admit,         \* a request of the worker being admitted: parse_hf_input
    exe,           \* a call of ExecutionService.execute made on its own
    tot,           \* one stream() of the worker's /bench/complete/stream
    ext,           \* extract_sql applied to a completion, and to its result
    cat,           \* the pages of list_questions asked for one after the other
    disk,          \* the directories of the model store, made and listed
    fetch          \* the fetch loop of an executor on the rows of a cursor

\* The variables of one run of stream().
streamVars == <<pc, run_id, final_status, ev, base, q, received, producer, disconnected,
                bench_runs, bench_events, bench_items, downstream, endRunCalls,
                scoreCalls, failedAt, discAt>>

\* The variables of a call of score_sqlite made on its own.
scoreVars == <<score_pc, score_args, score_pred, score_gold, score_ret>>

\* The variables of the worker: its requests, its ModelStore, its GpuRuntime.
storeVars == <<dirs, marker, writers, completed>>
runtimeVars == <<rt_key, rt_tokenizer, rt_model>>
workerVars == <<req, storeVars, runtimeVars>>

\* The variables of the job queue of the worker and of its /bench/stream.
jobVars == <<job, jq, loop>>

\* The variables of the calls run on their own.
auxVars == <<jobVars, http, admit, exe, tot, ext, cat, disk, fetch>>

\* What no step of stream() changes.
nonStreamVars == <<questions, tables, scoreVars, workerVars, auxVars>>

\* What no step of a call of score_sqlite changes.
nonScoreVars == <<questions, tables, streamVars, workerVars, auxVars>>

\* What no step of the worker changes.
nonWorkerVars == <<streamVars, questions, tables, scoreVars, auxVars>>

\* What no step of the job queue changes.
nonJobVars == <<streamVars, questions, tables, scoreVars, req, writers, completed,
                http, admit, exe, tot, ext, cat, disk, fetch>>

\* What no step of the admission of a request of the worker changes.
nonAdmitVars == <<streamVars, questions, tables, scoreVars, req, writers, completed,
                  runtimeVars, loop, http, exe, tot, ext, cat, disk, fetch>>

\* What no step of a call of ExecutionService.execute changes.
nonExecVars == <<streamVars, questions, scoreVars, workerVars, jobVars, http, admit,
                 tot, ext, cat, disk, fetch>>

\* What no step of one stream() of the worker changes.
nonTotVars == <<streamVars, questions, tables, scoreVars, workerVars, jobVars, http,
                admit, exe, ext, cat, disk, fetch>>

\* What no call of extract_sql changes.
nonExtVars == <<streamVars, questions, tables, scoreVars, workerVars, jobVars, http,
                admit, exe, tot, cat, disk, fetch>>

\* What no call of list_questions changes.
nonCatVars == <<streamVars, questions, tables, scoreVars, workerVars, jobVars, http,
                admit, exe, tot, ext, disk, fetch>>

\* What no call of the model store made on its own changes.
nonDiskVars == <<streamVars, questions, tables, scoreVars, workerVars, jobVars, http,
                 admit, exe, tot, ext, cat, fetch>>

\* What no step of the fetch loop of an executor on the rows of a cursor changes.
nonFetchVars == <<streamVars, questions, tables, scoreVars, workerVars, jobVars, http,
                 admit, exe, tot, ext, cat, disk>>

vars == <<streamVars, nonStreamVars>>

\* Results whose predicted or gold SQL fails in the sandbox: a timeout, a
\* syntax error, a table that does not exist, two statements, and a dataset
\* whose file cannot be opened.
SandboxShapes ==
    { <<"SELECT slow", "SELECT 1", "shop">>,
      <<"SELECT 1", "SELEC", NoneVal>>,
      <<"SELECT * FROM v", "SELECT 1; SELECT 1", "shop">>,
      <<"SELECT 1", "SELECT 1", "missing">> }

\* The events the worker may send as its n-th event, `results` results
\* having been sent before.
UpstreamEvents(n, results) ==
    { SseEvent(k, Payload(NoRunId, n, -1, NoneVal, NoneVal, NoneVal, <<>>)) :
        k \in {"status", "done"} \cup PassthroughKinds }
    \cup
    { SseEvent("result", Payload(NoRunId, n, results, s[1], s[2], s[3], <<>>)) :
        s \in questions }

\* SqliteExecutor.execute on the dataset as it is.
SqliteExecute(code, db_id) == SqliteExecuteOn(tables, code, db_id)

\* BenchmarkEnrichmentService.score_sqlite
ScoreSqlite(db_id, pred_sql, gold_sql) ==
    ScoredResult(SqliteExecute(pred_sql, db_id), SqliteExecute(gold_sql, db_id))

NoRun == [exists |-> FALSE, run_id |-> NoRunId, status |-> "", ended_at |-> FALSE]

TerminalStatus == {"ok", "client_disconnected", "error"}

\* The generator has finished: it returned or an exception left it.
Finished == pc \in {"returned", "raised"}

(***************************************************************************)
(* The worker (hf_bench): values.                                          *)
(***************************************************************************)
Reqs == 1..MaxReq

\* The models requested, all at revision "main" and with dtype "float16".
ModelIds == {"org/a", "org/b"}
Revision == "main"
Dtype == "float16"
Pairs == {<<id, Revision>> : id \in ModelIds}

\* ModelStore._local_dir: model_store_dir / model_id with "/" as "__" / revision
Safe(model_id) == IF model_id = "org/a" THEN "org__a" ELSE "org__b"
LocalDir(model_id, revision) == <<"/models_store", Safe(model_id), revision>>
NoPath == <<>>

\* key = (model_spec.model_id, model_spec.revision, model_spec.dtype)
Key(model_id) == <<model_id, Revision, Dtype>>
NoKey == <<>>

\* An object from_pretrained returned: its class, the path it was loaded
\* from and the call that loaded it.  NoHandle is None.
Handle(kind, path, r) == [kind |-> kind, path |-> path, by |-> r]
NoHandle == Handle("", NoPath, 0)

\* A request that has not reached the worker.  `did` is history: what the
\* call of the store or of the runtime that has just returned did ("cached",
\* "downloaded", "noop", "loaded"), "" once the request has gone on.
IdleReq ==
    [pc |-> "idle", model_id |-> "", local_path |-> NoPath, error |-> "",
     tok |-> NoHandle, mdl |-> NoHandle,
     gen_tokenizer |-> NoHandle, gen_model |-> NoHandle, did |-> ""]

\* The worker after startup(): no request, an empty store, nothing loaded.
WorkerStart ==
    /\ req = [r \in Reqs |-> IdleReq]
    /\ dirs = {}
    /\ marker = {}
    /\ writers = [p \in Pairs |-> {}]
    /\ completed = {}
    /\ rt_key = NoKey
    /\ rt_tokenizer = NoHandle
    /\ rt_model = NoHandle

\* The requests of /bench/stream.
MaxJobs == 3
JobIds == 1..MaxJobs

\* settings.queue_maxsize (QUEUE_MAXSIZE).
QueueMaxsize == 2

\* A request of /bench/stream that has not been made: no BenchJob, and
\* nothing on the job.events of one.  `task_done` is history: the number of
\* calls of queue.task_done() made for the job.
NoJob == [pc |-> "none", model_id |-> "", status_code |-> 0, events |-> <<>>,
          task_done |-> 0]

\* The loop of start_worker waiting in queue.get().
LoopIdle == [pc |-> "get", job |-> 0, local_path |-> NoPath]

\* The job queue after startup(): empty, its worker task waiting.
JobStart ==
    /\ job = [j \in JobIds |-> NoJob]
    /\ jq = <<>>
    /\ loop = LoopIdle

\* The body of a request of the coordinator's /bench/complete/stream.  The
\* text of `model` is "https://huggingface.co/" (url) or nothing, then path,
\* then "/" (slash) or nothing.
HttpRequest(url, path, slash, revision, limit) ==
    [model |-> [url |-> url, path |-> path, slash |-> slash],
     revision |-> revision, db_id |-> ReqDbId, limit |-> limit,
     status_code |-> 0, model_id |-> <<>>, rev |-> ""]

\* The request the runs of stream() modelled on their own are made for.
HttpDefault == HttpRequest(FALSE, ReqModelId, FALSE, ReqRevision, 200)

\* The text of a model reference given to the worker: "https://huggingface.co/"
\* (url) or nothing, then the segments joined by "/".  A last segment ""
\* is a "/" at the end of the text.
ModelText(url, segs) == [url |-> url, segs |-> segs]

\* A request of the worker before parse_hf_input: its route ("bench" for
\* /bench/stream, "complete" for /bench/complete/stream), the model and the
\* revision of its body, and settings.require_revision.
AdmitRequest(route, model, revision, require_revision) ==
    [pc |-> "parse", route |-> route, model |-> model, revision |-> revision,
     require_revision |-> require_revision,
     model_id |-> <<>>, parsed |-> NoneVal, rev |-> NoneVal, status_code |-> 0]

\* The request admitted when none is modelled.
NoAdmit == AdmitRequest("", ModelText(FALSE, <<>>), NoneVal, TRUE)

\* A call of ExecutionService.execute(executor_kind, db_id, code, context).
\* The code is the sequence of its statements, which ";" separates in its
\* text; the context holds a dsn or nothing.  For the postgres executor:
\* `at` is the statement the server runs next, in_tx and read_only are the
\* state of its transaction block, work the tables as the transaction sees
\* them.  `raised` is the exception that left execute, "" if none.
ExecCall(kind, db_id, code, context) ==
    [pc |-> "call", kind |-> kind, db_id |-> db_id, code |-> code,
     context |-> context, at |-> 1, in_tx |-> FALSE, read_only |-> FALSE,
     work |-> EmptyTables, rows |-> <<>>, result |-> ExecErr(""), raised |-> ""]

\* No call of ExecutionService.execute.
NoExecCall == [ExecCall("", "", <<>>, "none") EXCEPT !.pc = "idle"]

\* One stream() of the worker for a request with the filters source_file
\* and db_id, limit and offset.  items is the list of the questions, i the
\* index of the for loop, out the events yielded, each with its phase or
\* its index; warmups is history: the number of calls of runner.warmup.
TotStream(source_file, db_id, limit, offset) ==
    [pc |-> "start", source_file |-> source_file, db_id |-> db_id,
     limit |-> limit, offset |-> offset, items |-> <<>>, i |-> 0, out |-> <<>>,
     disconnected |-> FALSE, warmups |-> 0]

\* No stream() of the worker.
NoTot == [TotStream(NoneVal, NoneVal, 1, 0) EXCEPT !.pc = "idle"]

\* extract_sql to be applied to a text, a sequence of characters; once and
\* twice are extract_sql(text) and extract_sql(extract_sql(text)).
ExtractCall(text) == [pc |-> "text", text |-> text, once |-> <<>>, twice |-> <<>>]

\* No call of extract_sql.
NoExtract == [ExtractCall(<<>>) EXCEPT !.pc = "idle"]

\* The pages of list_questions(source_file, db_id, limit, offset) asked for
\* one after the other, the offset moved by limit each time, until a page
\* comes back short.
Paging(source_file, db_id, limit) ==
    [pc |-> "list", source_file |-> source_file, db_id |-> db_id, limit |-> limit,
     pages |-> <<>>]

\* No call of list_questions.
NoPaging == [Paging(NoneVal, NoneVal, 1) EXCEPT !.pc = "idle"]

\* The model store seen through its directories: the references given to
\* ensure_on_nvme (made), the directories that hold a .READY marker (ready)
\* and what list_ready_models returned (listed).
NoDisk == [pc |-> "idle", made |-> {}, ready |-> {}, listed |-> {}]

\* The loop of fetchmany of an executor: the configured max_rows, the rows
\* the cursor has still to give (left), the count the loop keeps (fetched)
\* and the number of rows in the output (rows).
FetchLoop(kind, max_rows, total) ==
    [pc |-> "fetch", kind |-> kind, max_rows |-> max_rows, left |-> total,
     fetched |-> 0, rows |-> 0]

\* No fetch loop.
NoFetch == [FetchLoop("", 1, 0) EXCEPT !.pc = "idle"]

\* No call run on its own is in progress.
AuxIdle ==
    /\ JobStart
    /\ http = HttpDefault
    /\ admit = NoAdmit
    /\ exe = NoExecCall
    /\ tot = NoTot
    /\ ext = NoExtract
    /\ cat = NoPaging
    /\ disk = NoDisk
    /\ fetch = NoFetch

\* The state of a run before stream() is called.
StreamFresh ==
    /\ run_id = NoRunId
    /\ final_status = ""
    /\ ev = NoEvent
    /\ base = NoPayload
    /\ q = <<>>
    /\ received = <<>>
    /\ producer = "idle"
    /\ disconnected = FALSE
    /\ bench_runs = NoRun
    /\ bench_events = <<>>
    /\ bench_items = <<>>
    /\ downstream = <<>>
    /\ endRunCalls = 0
    /\ scoreCalls = <<>>
    /\ failedAt = ""
    /\ discAt = ""

\* The state in which stream() is called.
StreamStart == pc = "start" /\ StreamFresh

\* The result of no execution, and no call of score_sqlite in progress.
NoExec == ExecErr("")
ScoreIdle ==
    /\ score_pc = "idle"
    /\ score_args = <<"", "", "">>
    /\ score_pred = NoExec
    /\ score_gold = NoExec
    /\ score_ret = NoScoring

Init ==
    /\ StreamStart
    /\ questions = ResultShapes
    /\ tables = EmptyTables
    /\ ScoreIdle
    /\ WorkerStart
    /\ AuxIdle

(***************************************************************************)
(* The run repository.                                                     *)
(***************************************************************************)
\* BenchmarkRepositoryPG.create_run
create_run(rid) ==
    [exists |-> TRUE, run_id |-> rid, status |-> "running", ended_at |-> FALSE]

\* BenchmarkRepositoryPG.end_run: UPDATE ... WHERE run_id = %s
end_run(row, rid, status) ==
    IF row.exists /\ row.run_id = rid
    THEN [row EXCEPT !.status = status, !.ended_at = TRUE]
    ELSE row

\* BenchmarkRepositoryPG.log_event
log_event(rows, rid, event_type, payload) ==
    Append(rows, [run_id |-> rid, event_type |-> event_type, payload |-> payload])

\* insert_item whose INSERT is never committed.
insert_item_Uncommitted(rows, rid, item) == rows

\* BenchmarkRepositoryPG.insert_item
insert_item(rows, rid, item) ==
    Append(rows,
        [run_id |-> rid, idx |-> item.index, db_id |-> item.db_id,
         sql |-> item.sql, gold_sql |-> item.gold_sql,
         pred_exec_success |-> item.scoring.pred_exec_success,
         gold_exec_success |-> item.scoring.gold_exec_success,
         is_correct |-> item.scoring.is_correct,
         pred_error |-> item.scoring.pred_error,
         gold_error |-> item.scoring.gold_error,
         rows_pred |-> item.scoring.rows_pred,
         rows_gold |-> item.scoring.rows_gold,
         match_kind |-> item.scoring.match_kind])

(***************************************************************************)
(* stream(): opening the run.  These steps run before the try statement.   *)
(***************************************************************************)
\* The exception of step `step` leaves the generator: nothing handles it.
Propagate(step) ==
    /\ pc' = "raised"
    /\ failedAt' = step

\* run_id = uuid.uuid4(); worker_base = await select_worker_url()
SelectWorker ==
    /\ pc = "start"
    /\ \E rid \in UUIDs : run_id' = rid
    /\ \/ /\ pc' = "create_run"
          /\ UNCHANGED failedAt
       \/ Propagate("select_worker_url")
    /\ UNCHANGED <<final_status, ev, base, q, received, producer, disconnected,
                   bench_runs, bench_events, bench_items, downstream,
                   endRunCalls, scoreCalls, discAt>>
    /\ UNCHANGED nonStreamVars

\* await asyncio.to_thread(repo.create_run, ...)
CreateRun ==
    /\ pc = "create_run"
    /\ \/ /\ bench_runs' = create_run(run_id)
          /\ base' = Payload(run_id, 0, -1, NoneVal, NoneVal, ReqDbId,
                             WorkerUrl(WorkerBase))
          /\ pc' = "log_meta"
          /\ UNCHANGED failedAt
       \/ /\ Propagate("create_run")
          /\ UNCHANGED <<bench_runs, base>>
    /\ UNCHANGED <<run_id, final_status, ev, q, received, producer, disconnected,
                   bench_events, bench_items, downstream, endRunCalls,
                   scoreCalls, discAt>>
    /\ UNCHANGED nonStreamVars

\* await asyncio.to_thread(repo.log_event, run_id, "meta", meta)
LogMeta ==
    /\ pc = "log_meta"
    /\ \/ /\ bench_events' = log_event(bench_events, run_id, "meta", base)
          /\ pc' = "yield_meta"
          /\ UNCHANGED failedAt
       \/ /\ Propagate("log_meta")
          /\ UNCHANGED bench_events
    /\ UNCHANGED <<run_id, final_status, ev, base, q, received, producer,
                   disconnected, bench_runs, bench_items, downstream,
                   endRunCalls, scoreCalls, discAt>>
    /\ UNCHANGED nonStreamVars

\* yield sse("meta", meta); final_status = "ok"; the async for starts, and
\* aiter_sse_events starts its producer thread and awaits its end.
YieldMeta ==
    /\ pc = "yield_meta"
    /\ downstream' = Append(downstream, sse("meta", base))
    /\ final_status' = "ok"
    /\ producer' = "running"
    /\ pc' = "await_producer"
    /\ UNCHANGED <<run_id, ev, base, q, received, disconnected, bench_runs,
                   bench_events, bench_items, endRunCalls, scoreCalls, failedAt,
                   discAt>>
    /\ UNCHANGED nonStreamVars

(***************************************************************************)
(* aiter_sse_events: the producer thread (iter_sse_events on the worker's  *)
(* response) and the consumer loop.  The consumer awaits the whole         *)
(* producer before its first q.get().                                      *)
(***************************************************************************)
NumResults(evs) == Cardinality({i \in 1..Len(evs) : evs[i].event = "result"})

\* for ev in iter_sse_events(url, payload): q.put_nowait(ev)
ProducerPut ==
    /\ producer = "running"
    /\ Len(received) < MaxUp
    /\ \E e \in UpstreamEvents(Len(received) + 1, NumResults(received)) :
          /\ q' = Append(q, e)
          /\ received' = Append(received, e)
    /\ UNCHANGED <<pc, run_id, final_status, ev, base, producer, disconnected,
                   bench_runs, bench_events, bench_items, downstream,
                   endRunCalls, scoreCalls, failedAt, discAt>>
    /\ UNCHANGED nonStreamVars

\* The worker's response ends: finally q.put_nowait(None); to_thread returns.
ProducerEnd ==
    /\ producer = "running"
    /\ producer' = "ended"
    /\ pc' = "get"
    /\ UNCHANGED <<run_id, final_status, ev, base, q, received, disconnected,
                   bench_runs, bench_events, bench_items, downstream,
                   endRunCalls, scoreCalls, failedAt, discAt>>
    /\ UNCHANGED nonStreamVars

\* requests raises (connect error, HTTP error status, broken read): finally
\* q.put_nowait(None), and the exception leaves to_thread inside the async for.
ProducerFail ==
    /\ producer = "running"
    /\ producer' = "failed"
    /\ pc' = "except"
    /\ failedAt' = "worker"
    /\ UNCHANGED <<run_id, final_status, ev, base, q, received, disconnected,
                   bench_runs, bench_events, bench_items, downstream,
                   endRunCalls, scoreCalls, discAt>>
    /\ UNCHANGED nonStreamVars

\* QGet on a last-in-first-out queue.
QGet_Lifo(queue) == queue[Len(queue)]

\* ev = await q.get(): the next event, or the None sentinel that ends the loop.
QGet(queue) == Head(queue)
QRest(queue) == Tail(queue)

GetEvent ==
    /\ pc = "get"
    /\ IF q = <<>>
       THEN /\ pc' = "finally"
            /\ UNCHANGED <<ev, q>>
       ELSE /\ ev' = QGet(q)
            /\ q' = QRest(q)
            /\ pc' = "check"
    /\ UNCHANGED <<run_id, final_status, base, received, producer, disconnected,
                   bench_runs, bench_events, bench_items, downstream,
                   endRunCalls, scoreCalls, failedAt, discAt>>
    /\ UNCHANGED nonStreamVars

(***************************************************************************)
(* stream(): the body of the async for.                                    *)
(***************************************************************************)
\* An exception raised inside the try statement: the except clause runs.
Raise(step) ==
    /\ pc' = "except"
    /\ failedAt' = step

\* The branch of the loop body an event of this kind takes.
Branch(event) ==
    IF event = "status" THEN "log_status"
    ELSE IF event = "result" THEN "score"
    ELSE IF event = "done" THEN "log_done"
    ELSE "log_passthrough"

\* if await request.is_disconnected(): final_status = ...; break
CheckDisconnected ==
    /\ pc = "check"
    /\ IF disconnected
       THEN /\ final_status' = "client_disconnected"
            /\ pc' = "finally"
            /\ UNCHANGED base
       ELSE /\ base' = Tag(ev.data, run_id)
            /\ pc' = Branch(ev.event)
            /\ UNCHANGED final_status
    /\ UNCHANGED <<run_id, ev, q, received, producer, disconnected, bench_runs,
                   bench_events, bench_items, downstream, endRunCalls,
                   scoreCalls, failedAt, discAt>>
    /\ UNCHANGED nonStreamVars

\* LogStep with the log_event call lost: the branch goes on to its yield
\* without a row being written.
LogStep_Unlogged(at, kind, next) ==
    /\ pc = at
    /\ pc' = next
    /\ UNCHANGED <<run_id, final_status, ev, base, q, received, producer,
                   disconnected, bench_runs, bench_events, bench_items,
                   downstream, endRunCalls, scoreCalls, failedAt, discAt>>
    /\ UNCHANGED nonStreamVars

\* await to_thread(log_event, run_id, kind, base), in the branch at `at`.
LogStep(at, kind, next) ==
    /\ pc = at
    /\ \/ /\ bench_events' = log_event(bench_events, run_id, kind, base)
          /\ pc' = next
          /\ UNCHANGED failedAt
       \/ /\ Raise(at)
          /\ UNCHANGED bench_events
    /\ UNCHANGED <<run_id, final_status, ev, base, q, received, producer,
                   disconnected, bench_runs, bench_items, downstream,
                   endRunCalls, scoreCalls, discAt>>
    /\ UNCHANGED nonStreamVars

\* yield sse(kind, base), in the branch at `at`.
YieldStep(at, kind, next) ==
    /\ pc = at
    /\ downstream' = Append(downstream, sse(kind, base))
    /\ pc' = next
    /\ UNCHANGED <<run_id, final_status, ev, base, q, received, producer,
                   disconnected, bench_runs, bench_events, bench_items,
                   endRunCalls, scoreCalls, failedAt, discAt>>
    /\ UNCHANGED nonStreamVars

\* if ev.event == "status": log_event; yield; continue
LogStatus == LogStep("log_status", "status", "yield_status")
YieldStatus == YieldStep("yield_status", "status", "get")

\* item_db_id = base.get("db_id") or db_id
ItemDbId(b) == IF Truthy(b.db_id) THEN b.db_id ELSE ReqDbId

\* Scorable with truthiness tests (`if pred_sql and gold_sql and item_db_id`)
\* in place of the isinstance tests.
Scorable_Truthy(b) ==
    /\ b.sql \notin {NoneVal, ""}
    /\ b.gold_sql \notin {NoneVal, ""}
    /\ b.db_id \notin {NoneVal, ""} \/ ReqDbId \notin {NoneVal, ""}

\* isinstance(pred_sql, str) and isinstance(gold_sql, str) and
\* isinstance(item_db_id, str)
Scorable(b) == IsStr(b.sql) /\ IsStr(b.gold_sql) /\ IsStr(ItemDbId(b))

\* if ev.event == "result": score when the three are strings, and attach
\* the verdict as base["scoring"].
ScoreResult ==
    /\ pc = "score"
    /\ IF Scorable(base)
       THEN \/ /\ base' = [base EXCEPT
                     !.scoring = ScoreSqlite(ItemDbId(base), base.sql, base.gold_sql)]
               /\ scoreCalls' = Append(scoreCalls,
                     <<base.n, ItemDbId(base), base.sql, base.gold_sql>>)
               /\ pc' = "log_result"
               /\ UNCHANGED failedAt
            \/ /\ Raise("score")
               /\ UNCHANGED <<base, scoreCalls>>
       ELSE /\ pc' = "log_result"
            /\ UNCHANGED <<base, scoreCalls, failedAt>>
    /\ UNCHANGED <<run_id, final_status, ev, q, received, producer, disconnected,
                   bench_runs, bench_events, bench_items, downstream,
                   endRunCalls, discAt>>
    /\ UNCHANGED nonStreamVars

LogResult == LogStep("log_result", "result", "insert_item")

\* InsertItem with the exception of insert_item swallowed: the result is
\* emitted without its row.
InsertItem_Swallowed ==
    /\ pc = "insert_item"
    /\ \/ bench_items' = insert_item(bench_items, run_id, base)
       \/ UNCHANGED bench_items
    /\ pc' = "yield_result"
    /\ UNCHANGED <<run_id, final_status, ev, base, q, received, producer,
                   disconnected, bench_runs, bench_events, downstream,
                   endRunCalls, scoreCalls, failedAt, discAt>>
    /\ UNCHANGED nonStreamVars

\* await to_thread(insert_item, run_id, base)
InsertItem ==
    /\ pc = "insert_item"
    /\ \/ /\ bench_items' = insert_item(bench_items, run_id, base)
          /\ pc' = "yield_result"
          /\ UNCHANGED failedAt
       \/ /\ Raise("insert_item")
          /\ UNCHANGED bench_items
    /\ UNCHANGED <<run_id, final_status, ev, base, q, received, producer,
                   disconnected, bench_runs, bench_events, downstream,
                   endRunCalls, scoreCalls, discAt>>
    /\ UNCHANGED nonStreamVars

YieldResult == YieldStep("yield_result", "result", "get")

\* if ev.event == "done": log_event; yield; break
LogDone == LogStep("log_done", "done", "yield_done")
YieldDone == YieldStep("yield_done", "done", "finally")

\* any other kind: log_event(run_id, ev.event, passthrough); yield
LogPassthrough == LogStep("log_passthrough", ev.event, "yield_passthrough")
YieldPassthrough == YieldStep("yield_passthrough", ev.event, "get")

(***************************************************************************)
(* stream(): except Exception and finally.                                 *)
(***************************************************************************)
\* The text of the exception raised at a step: f"{type(e).__name__}: {e}"
ErrorText(step) == <<"Exception", step>>

\* except Exception as e: final_status = "error"; log_event(error).  When
\* this log_event raises, the finally clause runs and the exception leaves.
HandleException ==
    /\ pc = "except"
    /\ final_status' = "error"
    /\ base' = Payload(run_id, 0, -1, NoneVal, NoneVal, NoneVal, ErrorText(failedAt))
    /\ \/ /\ bench_events' = log_event(bench_events, run_id, "error", base')
          /\ pc' = "yield_error"
          /\ UNCHANGED failedAt
       \/ /\ pc' = "finally"
          /\ failedAt' = "log_error"
          /\ UNCHANGED bench_events
    /\ UNCHANGED <<run_id, ev, q, received, producer, disconnected, bench_runs,
                   bench_items, downstream, endRunCalls, scoreCalls, discAt>>
    /\ UNCHANGED nonStreamVars

YieldError == YieldStep("yield_error", "error", "finally")

\* finally: await to_thread(end_run, run_id, final_status).  The generator
\* then returns, or the exception that was on its way (or end_run's) leaves.
EndRun ==
    /\ pc = "finally"
    /\ endRunCalls' = endRunCalls + 1
    /\ \/ /\ bench_runs' = end_run(bench_runs, run_id, final_status)
          /\ pc' = IF failedAt = "log_error" THEN "raised" ELSE "returned"
          /\ UNCHANGED failedAt
       \/ /\ pc' = "raised"
          /\ failedAt' = "end_run"
          /\ UNCHANGED bench_runs
    /\ UNCHANGED <<run_id, final_status, ev, base, q, received, producer,
                   disconnected, bench_events, bench_items, downstream,
                   scoreCalls, discAt>>
    /\ UNCHANGED nonStreamVars

(***************************************************************************)
(* The client.                                                             *)
(***************************************************************************)
\* The phase of the run: before create_run has returned ("unopened"), while
\* the producer thread reads the worker ("worker_running"), after the done
\* event was taken from the queue or the loop was left ("closing"), and
\* otherwise "streaming".
Phase ==
    IF ~bench_runs.exists THEN "unopened"
    ELSE IF pc \in {"log_meta", "yield_meta"} THEN "opened"
    ELSE IF producer = "running" THEN "worker_running"
    ELSE IF \/ pc \in {"except", "yield_error", "finally"}
            \/ (ev.event = "done" /\ pc # "get")
         THEN "closing"
    ELSE "streaming"

\* The client closes the connection: is_disconnected() is true from now on.
ClientDisconnect ==
    /\ ~disconnected
    /\ ~Finished
    /\ disconnected' = TRUE
    /\ discAt' = Phase
    /\ UNCHANGED <<pc, run_id, final_status, ev, base, q, received, producer,
                   bench_runs, bench_events, bench_items, downstream,
                   endRunCalls, scoreCalls, failedAt>>
    /\ UNCHANGED nonStreamVars

\* The steps of the coordinator's task.
Coordinator ==
    \/ SelectWorker \/ CreateRun \/ LogMeta \/ YieldMeta
    \/ GetEvent \/ CheckDisconnected
    \/ LogStatus \/ YieldStatus
    \/ ScoreResult \/ LogResult \/ InsertItem \/ YieldResult
    \/ LogDone \/ YieldDone
    \/ LogPassthrough \/ YieldPassthrough
    \/ HandleException \/ YieldError \/ EndRun

\* The steps of the worker's response, read by the producer thread.
Worker == ProducerPut \/ ProducerEnd \/ ProducerFail

Next == Coordinator \/ Worker \/ ClientDisconnect

Spec == Init /\ [][Next]_vars

\* The run of a worker whose results fail in the sandbox.
SandboxInit ==
    /\ StreamStart
    /\ questions = SandboxShapes
    /\ tables = EmptyTables
    /\ ScoreIdle
    /\ WorkerStart
    /\ AuxIdle

SandboxSpec == SandboxInit /\ [][Next]_vars

\* The event loop runs the coordinator's task whenever it can take a step;
\* nothing is assumed of the worker or of the client.
FairSpec == Spec /\ WF_vars(Coordinator)

(***************************************************************************)
(* The route of the coordinator: /bench/complete/stream validates the body *)
(* (CompleteBenchmarkRequest), parses the model reference and answers with *)
(* a StreamingResponse over stream().                                      *)
(***************************************************************************)
\* parse_hf_input: m = model.strip(); the prefix "https://huggingface.co/"
\* is removed and then the "/" at both ends; without the prefix m is kept.
\* The identifier is the text of the path, with its "/" at the end if kept.
ParseModel(model) ==
    <<model.path, IF model.url THEN FALSE ELSE model.slash>>

\* rev = (revision or "main").strip()
ParseRevision(revision) == IF Truthy(revision) THEN revision ELSE "main"

\* limit: int = Field(200, ge=1, le=100000)
LimitInRange(limit) == limit >= 1 /\ limit <= 100000

\* The bodies of the requests made.
HttpPaths == {"org/model", "nomodel", ""}
HttpRevisions == {NoneVal, "v1"}
HttpLimits == {0, 200, 100001}

\* complete_benchmark_stream: the body is refused by its model (422), or
\* the reference is parsed and the response starts stream().
CompleteBenchmarkStream ==
    /\ pc = "request"
    /\ http.status_code = 0
    /\ IF LimitInRange(http.limit)
       THEN /\ http' = [http EXCEPT !.status_code = 200,
                                    !.model_id = ParseModel(http.model),
                                    !.rev = ParseRevision(http.revision)]
            /\ pc' = "start"
       ELSE /\ http' = [http EXCEPT !.status_code = 422]
            /\ pc' = pc
    /\ UNCHANGED <<run_id, final_status, ev, base, q, received, producer, disconnected,
                   bench_runs, bench_events, bench_items, downstream,
                   endRunCalls, scoreCalls, failedAt, discAt>>
    /\ UNCHANGED <<questions, tables, scoreVars, workerVars, jobVars, admit, exe, tot,
                   ext, cat, disk, fetch>>

\* A request of any body; the worker has one question.
RouteInit ==
    /\ pc = "request"
    /\ StreamFresh
    /\ questions = {<<"SELECT 1", "SELECT 1", "shop">>}
    /\ tables = EmptyTables
    /\ ScoreIdle
    /\ WorkerStart
    /\ JobStart
    /\ admit = NoAdmit
    /\ exe = NoExecCall
    /\ ext = NoExtract
    /\ tot = NoTot
    /\ cat = NoPaging
    /\ disk = NoDisk
    /\ fetch = NoFetch
    /\ http \in {HttpRequest(url, path, slash, revision, limit) :
                    url \in BOOLEAN, path \in HttpPaths, slash \in BOOLEAN,
                    revision \in HttpRevisions, limit \in HttpLimits}

RouteNext == CompleteBenchmarkStream \/ Next

RouteSpec == RouteInit /\ [][RouteNext]_vars

(***************************************************************************)
(* score_sqlite called on its own: any dataset content within the bounds,  *)
(* any dataset id and any two SQL texts of a small set.                    *)
(***************************************************************************)
SqlTexts ==
    {"SELECT * FROM t", "SELECT * FROM u", "SELEC", "SELECT heavy", "SELECT random()"}
DbIds == {"shop", "missing"}

ScoreInit ==
    /\ StreamStart
    /\ questions = ResultShapes
    /\ tables \in [t : SeqsUpTo(TableRows, MaxRows), u : SeqsUpTo(TableRows, MaxRows)]
    /\ score_pc = "call"
    /\ score_args \in DbIds \X SqlTexts \X SqlTexts
    /\ score_pred = NoExec
    /\ score_gold = NoExec
    /\ score_ret = NoScoring
    /\ WorkerStart
    /\ AuxIdle

\* pred = exec_service.execute("sqlite", db_id=db_id, code=pred_sql).result
ExecutePred ==
    /\ score_pc = "call"
    /\ \E r \in SqliteOutcomes(tables, score_args[2], score_args[1]) : score_pred' = r
    /\ score_pc' = "pred_done"
    /\ UNCHANGED <<score_args, score_gold, score_ret>>
    /\ UNCHANGED nonScoreVars

\* gold = exec_service.execute("sqlite", db_id=db_id, code=gold_sql).result
ExecuteGold ==
    /\ score_pc = "pred_done"
    /\ \E r \in SqliteOutcomes(tables, score_args[3], score_args[1]) : score_gold' = r
    /\ score_pc' = "gold_done"
    /\ UNCHANGED <<score_args, score_pred, score_ret>>
    /\ UNCHANGED nonScoreVars

\* return ScoredResult(...)
ReturnScored ==
    /\ score_pc = "gold_done"
    /\ score_ret' = ScoredResult(score_pred, score_gold)
    /\ score_pc' = "returned"
    /\ UNCHANGED <<score_args, score_pred, score_gold>>
    /\ UNCHANGED nonScoreVars

ScoreNext == ExecutePred \/ ExecuteGold \/ ReturnScored

ScoreSpec == ScoreInit /\ [][ScoreNext]_vars

\* Rows whose values print alike: the integer 1 and the text '1', NULL and
\* the text 'NULL'.
TypedRows ==
    { <<IntV("1"), NullV>>, <<IntV("1"), TextV("NULL")>>, <<TextV("1"), NullV>> }

\* score_sqlite on two tables of such rows.
TypedInit ==
    /\ StreamStart
    /\ questions = ResultShapes
    /\ tables \in [t : SeqsUpTo(TypedRows, MaxRows), u : SeqsUpTo(TypedRows, MaxRows)]
    /\ score_pc = "call"
    /\ score_args \in {"shop"} \X {"SELECT * FROM t", "SELECT * FROM u"}
                               \X {"SELECT * FROM t", "SELECT * FROM u"}
    /\ score_pred = NoExec
    /\ score_gold = NoExec
    /\ score_ret = NoScoring
    /\ WorkerStart
    /\ AuxIdle

TypedSpec == TypedInit /\ [][ScoreNext]_vars

(***************************************************************************)
(* The worker: requests of complete_benchmark_stream on one process.  Each *)
(* request runs store.ensure_on_nvme, runtime.ensure_loaded, runner.warmup *)
(* and runner.run_once in threads of the pool (asyncio.to_thread), so the  *)
(* calls of different requests interleave; the store and the runtime are   *)
(* the objects of app.state, shared by all requests.                       *)
(***************************************************************************)
Pair(r) == <<req[r].model_id, Revision>>

\* What HfApi.repo_info and the two policy tests may give: the metadata of
\* a repository within the policy, of one above max_repo_size_gb (413), of
\* one without .safetensors weights (415), or an error of the hub.
RemoteOutcomes == {"ok", "too_large", "no_safetensors", "unavailable"}

\* A request reaches the worker: model_id, revision = parse_hf_input(...)
Arrive(r) ==
    /\ req[r].pc = "idle"
    /\ \E id \in ModelIds :
          req' = [req EXCEPT ![r].pc = "repo_info", ![r].model_id = id]
    /\ UNCHANGED <<storeVars, runtimeVars>>
    /\ UNCHANGED nonWorkerVars

\* RepoInfo with the directory made before the two tests.
RepoInfo_DirectoryFirst(r) ==
    /\ req[r].pc = "repo_info"
    /\ dirs' = dirs \cup {Pair(r)}
    /\ \E o \in RemoteOutcomes :
          req' = IF o = "ok"
                 THEN [req EXCEPT ![r].pc = "check_marker"]
                 ELSE [req EXCEPT ![r].pc = "failed", ![r].error = o]
    /\ UNCHANGED <<marker, writers, completed, runtimeVars>>
    /\ UNCHANGED nonWorkerVars

\* ensure_on_nvme: repo_info, the size test and the safetensors test.
RepoInfo(r) ==
    /\ req[r].pc = "repo_info"
    /\ \E o \in RemoteOutcomes :
          req' = IF o = "ok"
                 THEN [req EXCEPT ![r].pc = "check_marker"]
                 ELSE [req EXCEPT ![r].pc = "failed", ![r].error = o]
    /\ UNCHANGED <<storeVars, runtimeVars>>
    /\ UNCHANGED nonWorkerVars

\* os.path.exists(marker), answered without looking.
MarkerExists_Never(pair) == FALSE

\* os.path.exists(marker)
MarkerExists(pair) == pair \in marker

\* ensure_on_nvme: os.makedirs(dst, exist_ok=True); return dst when the
\* marker exists, and call snapshot_download otherwise.
CheckMarker(r) ==
    /\ req[r].pc = "check_marker"
    /\ dirs' = dirs \cup {Pair(r)}
    /\ IF MarkerExists(Pair(r))
       THEN /\ req' = [req EXCEPT ![r].pc = "ensure_loaded", ![r].did = "cached",
                                  ![r].local_path = LocalDir(req[r].model_id, Revision)]
            /\ UNCHANGED writers
       ELSE /\ req' = [req EXCEPT ![r].pc = "downloading"]
            /\ writers' = [writers EXCEPT ![Pair(r)] = @ \cup {r}]
    /\ UNCHANGED <<marker, completed, runtimeVars>>
    /\ UNCHANGED nonWorkerVars

\* snapshot_download returns, or raises.
FinishDownload(r) ==
    /\ req[r].pc = "downloading"
    /\ writers' = [writers EXCEPT ![Pair(r)] = @ \ {r}]
    /\ \/ /\ req' = [req EXCEPT ![r].pc = "write_marker"]
          /\ completed' = completed \cup {Pair(r)}
       \/ /\ req' = [req EXCEPT ![r].pc = "failed", ![r].error = "download"]
          /\ UNCHANGED completed
    /\ UNCHANGED <<dirs, marker, runtimeVars>>
    /\ UNCHANGED nonWorkerVars

\* with open(marker, "w") as f: f.write("ok\n"); return dst
WriteMarker(r) ==
    /\ req[r].pc = "write_marker"
    /\ marker' = marker \cup {Pair(r)}
    /\ req' = [req EXCEPT ![r].pc = "ensure_loaded", ![r].did = "downloaded",
                          ![r].local_path = LocalDir(req[r].model_id, Revision)]
    /\ UNCHANGED <<dirs, writers, completed, runtimeVars>>
    /\ UNCHANGED nonWorkerVars

\* The test of ensure_loaded on the key alone.
KeyMatches_KeyOnly(model_id) == rt_key = Key(model_id)

\* self._key == key and self._model is not None and self._tokenizer is not None
KeyMatches(model_id) ==
    rt_key = Key(model_id) /\ rt_model # NoHandle /\ rt_tokenizer # NoHandle

\* ensure_loaded: return when the key matches, else go on to unload().
CheckLoaded(r) ==
    /\ req[r].pc = "ensure_loaded"
    /\ req' = IF KeyMatches(req[r].model_id)
              THEN [req EXCEPT ![r].pc = "loaded", ![r].did = "noop"]
              ELSE [req EXCEPT ![r].pc = "unload_key", ![r].did = ""]
    /\ UNCHANGED <<storeVars, runtimeVars>>
    /\ UNCHANGED nonWorkerVars

\* unload: self._key = None
UnloadKey(r) ==
    /\ req[r].pc = "unload_key"
    /\ rt_key' = NoKey
    /\ req' = [req EXCEPT ![r].pc = "unload_tokenizer"]
    /\ UNCHANGED <<storeVars, rt_tokenizer, rt_model>>
    /\ UNCHANGED nonWorkerVars

\* unload: self._tokenizer = None
UnloadTokenizer(r) ==
    /\ req[r].pc = "unload_tokenizer"
    /\ rt_tokenizer' = NoHandle
    /\ req' = [req EXCEPT ![r].pc = "unload_model"]
    /\ UNCHANGED <<storeVars, rt_key, rt_model>>
    /\ UNCHANGED nonWorkerVars

\* unload: self._model = None; torch.cuda.empty_cache()
UnloadModel(r) ==
    /\ req[r].pc = "unload_model"
    /\ rt_model' = NoHandle
    /\ req' = [req EXCEPT ![r].pc = "load_tokenizer"]
    /\ UNCHANGED <<storeVars, rt_key, rt_tokenizer>>
    /\ UNCHANGED nonWorkerVars

\* dt = torch_dtype(...); tok = AutoTokenizer.from_pretrained(local_path),
\* or one of the two raises.
LoadTokenizer(r) ==
    /\ req[r].pc = "load_tokenizer"
    /\ \/ req' = [req EXCEPT ![r].pc = "load_model",
                             ![r].tok = Handle("tokenizer", req[r].local_path, r)]
       \/ req' = [req EXCEPT ![r].pc = "failed", ![r].error = "load"]
    /\ UNCHANGED <<storeVars, runtimeVars>>
    /\ UNCHANGED nonWorkerVars

\* mdl = AutoModelForCausalLM.from_pretrained(local_path); mdl.eval();
\* mdl.to(device), or one of them raises and the locals are dropped.
LoadModel(r) ==
    /\ req[r].pc = "load_model"
    /\ \/ req' = [req EXCEPT ![r].pc = "set_key",
                             ![r].mdl = Handle("model", req[r].local_path, r)]
       \/ req' = [req EXCEPT ![r].pc = "failed", ![r].error = "load",
                             ![r].tok = NoHandle]
    /\ UNCHANGED <<storeVars, runtimeVars>>
    /\ UNCHANGED nonWorkerVars

\* self._key = key
SetKey(r) ==
    /\ req[r].pc = "set_key"
    /\ rt_key' = Key(req[r].model_id)
    /\ req' = [req EXCEPT ![r].pc = "set_tokenizer"]
    /\ UNCHANGED <<storeVars, rt_tokenizer, rt_model>>
    /\ UNCHANGED nonWorkerVars

\* self._tokenizer = tok
SetTokenizer(r) ==
    /\ req[r].pc = "set_tokenizer"
    /\ rt_tokenizer' = req[r].tok
    /\ req' = [req EXCEPT ![r].pc = "set_model"]
    /\ UNCHANGED <<storeVars, rt_key, rt_model>>
    /\ UNCHANGED nonWorkerVars

\* self._model = mdl, and ensure_loaded returns: its locals are gone.
SetModel(r) ==
    /\ req[r].pc = "set_model"
    /\ rt_model' = req[r].mdl
    /\ req' = [req EXCEPT ![r].pc = "loaded", ![r].did = "loaded",
                          ![r].tok = NoHandle, ![r].mdl = NoHandle]
    /\ UNCHANGED <<storeVars, rt_key, rt_tokenizer>>
    /\ UNCHANGED nonWorkerVars

\* items = spider.list_questions_with_schema(...): with no item the stream
\* yields done, else it warms up on the first one.
LoadQuestions(r) ==
    /\ req[r].pc = "loaded"
    /\ \E next \in {"done", "warmup"} :
          req' = [req EXCEPT ![r].pc = next, ![r].did = ""]
    /\ UNCHANGED <<storeVars, runtimeVars>>
    /\ UNCHANGED nonWorkerVars

\* to_thread(runner.warmup / runner.run_once, tokenizer=runtime.tokenizer,
\* model=runtime.model, ...): the call takes the two objects the runtime
\* holds now; with None in their place the generation raises.
StartGeneration(r, at, next) ==
    /\ req[r].pc = at
    /\ req' = IF rt_tokenizer = NoHandle \/ rt_model = NoHandle
              THEN [req EXCEPT ![r].pc = "failed", ![r].error = "generation"]
              ELSE [req EXCEPT ![r].pc = next,
                               ![r].gen_tokenizer = rt_tokenizer,
                               ![r].gen_model = rt_model]
    /\ UNCHANGED <<storeVars, runtimeVars>>
    /\ UNCHANGED nonWorkerVars

StartWarmup(r) == StartGeneration(r, "warmup", "warming")

\* runner.warmup returns: yield status warmup_done
EndWarmup(r) ==
    /\ req[r].pc = "warming"
    /\ req' = [req EXCEPT ![r].pc = "run_once",
                          ![r].gen_tokenizer = NoHandle, ![r].gen_model = NoHandle]
    /\ UNCHANGED <<storeVars, runtimeVars>>
    /\ UNCHANGED nonWorkerVars

StartRunOnce(r) == StartGeneration(r, "run_once", "generating")

\* runner.run_once returns: yield result; then the next item, or after the
\* last one yield done.
EndRunOnce(r) ==
    /\ req[r].pc = "generating"
    /\ \E next \in {"done", "run_once"} :
          req' = [req EXCEPT ![r].pc = next,
                             ![r].gen_tokenizer = NoHandle, ![r].gen_model = NoHandle]
    /\ UNCHANGED <<storeVars, runtimeVars>>
    /\ UNCHANGED nonWorkerVars

WorkerNext ==
    \E r \in Reqs :
       \/ Arrive(r) \/ RepoInfo(r) \/ CheckMarker(r) \/ FinishDownload(r)
       \/ WriteMarker(r)
       \/ CheckLoaded(r) \/ UnloadKey(r) \/ UnloadTokenizer(r) \/ UnloadModel(r)
       \/ LoadTokenizer(r) \/ LoadModel(r)
       \/ SetKey(r) \/ SetTokenizer(r) \/ SetModel(r)
       \/ LoadQuestions(r)
       \/ StartWarmup(r) \/ EndWarmup(r) \/ StartRunOnce(r) \/ EndRunOnce(r)

WorkerInit ==
    /\ StreamStart
    /\ questions = ResultShapes
    /\ tables = EmptyTables
    /\ ScoreIdle
    /\ WorkerStart
    /\ AuxIdle

WorkerSpec == WorkerInit /\ [][WorkerNext]_vars

(***************************************************************************)
(* The job queue of the worker (hf_bench): the requests of /bench/stream   *)
(* put a BenchJob on JobQueue.queue, and the task of start_worker takes    *)
(* the jobs one by one.  The loop calls the store, the runtime and the     *)
(* runner on the thread of the event loop; its steps are kept apart here,  *)
(* so a request may be served between any two of them.                     *)
(***************************************************************************)
\* The queue that refuses nothing.
QueueFull_Never == FALSE

\* asyncio.Queue.full(): a maxsize of 0 or less is an unbounded queue.
QueueFull == QueueMaxsize > 0 /\ Len(jq) >= QueueMaxsize

\* await self.emit(job, event, payload): job.events.put(sse(event, payload))
Emit(j, kinds) == [job EXCEPT ![j].events = job[j].events \o kinds]

\* bench_stream: the BenchJob is made and jq.enqueue(job) puts it with
\* put_nowait, or raises HTTPException(429) when the queue is full.
BenchStream(j) ==
    /\ job[j].pc = "none"
    /\ \E id \in ModelIds :
          IF QueueFull
          THEN /\ job' = [job EXCEPT ![j].pc = "rejected", ![j].model_id = id,
                                     ![j].status_code = 429]
               /\ jq' = jq
          ELSE /\ job' = [job EXCEPT ![j].pc = "queued", ![j].model_id = id]
               /\ jq' = Append(jq, j)
    /\ UNCHANGED <<loop, dirs, marker, runtimeVars>>
    /\ UNCHANGED nonJobVars

\* job = await self.queue.get(), then the status events "started" and
\* "downloading_or_cache_check".
GetJob ==
    /\ loop.pc = "get"
    /\ jq # <<>>
    /\ LET j == Head(jq) IN
          /\ jq' = Tail(jq)
          /\ job' = [Emit(j, <<"status", "status">>) EXCEPT ![j].pc = "taken"]
          /\ loop' = [loop EXCEPT !.pc = "ensure_on_nvme", !.job = j]
    /\ UNCHANGED <<dirs, marker, runtimeVars>>
    /\ UNCHANGED nonJobVars

\* local_path = self.store.ensure_on_nvme(job.model_id, job.revision): the
\* whole call, on the thread of the loop.  It raises HTTPException (413,
\* 415) or another exception (hub, download), or returns the directory,
\* downloaded and marked if it was not; then the status events
\* "model_ready_on_nvme" and "loading_model_to_gpu".
JobEnsureOnNvme ==
    /\ loop.pc = "ensure_on_nvme"
    /\ LET j == loop.job
           pair == <<job[j].model_id, Revision>>
       IN \E o \in RemoteOutcomes \cup {"download_failed"} :
             \/ /\ o = "ok"
                /\ dirs' = dirs \cup {pair}
                /\ marker' = marker \cup {pair}
                /\ job' = Emit(j, <<"status", "status">>)
                /\ loop' = [loop EXCEPT !.pc = "ensure_loaded",
                                        !.local_path = LocalDir(job[j].model_id, Revision)]
             \/ /\ o \in {"too_large", "no_safetensors"}
                /\ job' = [job EXCEPT ![j].status_code =
                                         IF o = "too_large" THEN 413 ELSE 415]
                /\ loop' = [loop EXCEPT !.pc = "except_http"]
                /\ UNCHANGED <<dirs, marker>>
             \/ /\ o = "unavailable"
                /\ loop' = [loop EXCEPT !.pc = "except"]
                /\ UNCHANGED <<job, dirs, marker>>
             \/ /\ o = "download_failed"
                /\ ~MarkerExists(pair)
                /\ dirs' = dirs \cup {pair}
                /\ loop' = [loop EXCEPT !.pc = "except"]
                /\ UNCHANGED <<job, marker>>
    /\ UNCHANGED <<jq, runtimeVars>>
    /\ UNCHANGED nonJobVars

\* self.runtime.ensure_loaded(ModelSpec(...), local_path): the whole call.
\* It returns at once when the key matches; else it unloads and loads, or
\* raises after the unload; then the status events "model_loaded" and
\* "running".
JobEnsureLoaded ==
    /\ loop.pc = "ensure_loaded"
    /\ LET j == loop.job IN
          \/ /\ KeyMatches(job[j].model_id)
             /\ job' = Emit(j, <<"status", "status">>)
             /\ loop' = [loop EXCEPT !.pc = "run_once"]
             /\ UNCHANGED runtimeVars
          \/ /\ ~KeyMatches(job[j].model_id)
             /\ rt_key' = Key(job[j].model_id)
             /\ rt_tokenizer' = Handle("tokenizer", loop.local_path, j)
             /\ rt_model' = Handle("model", loop.local_path, j)
             /\ job' = Emit(j, <<"status", "status">>)
             /\ loop' = [loop EXCEPT !.pc = "run_once"]
          \/ /\ ~KeyMatches(job[j].model_id)
             /\ rt_key' = NoKey
             /\ rt_tokenizer' = NoHandle
             /\ rt_model' = NoHandle
             /\ loop' = [loop EXCEPT !.pc = "except"]
             /\ UNCHANGED job
    /\ UNCHANGED <<jq, dirs, marker>>
    /\ UNCHANGED nonJobVars

\* result = self.runner.run_once(...), then the events "result" and
\* "done"; or run_once raises.
JobRunOnce ==
    /\ loop.pc = "run_once"
    /\ \/ /\ job' = Emit(loop.job, <<"result", "done">>)
          /\ loop' = [loop EXCEPT !.pc = "finally"]
       \/ /\ loop' = [loop EXCEPT !.pc = "except"]
          /\ UNCHANGED job
    /\ UNCHANGED <<jq, dirs, marker, runtimeVars>>
    /\ UNCHANGED nonJobVars

\* HandleJobException without the done event after the error.
HandleJobException_NoDone ==
    /\ loop.pc \in {"except_http", "except"}
    /\ job' = Emit(loop.job, <<"error">>)
    /\ loop' = [loop EXCEPT !.pc = "finally"]
    /\ UNCHANGED <<jq, dirs, marker, runtimeVars>>
    /\ UNCHANGED nonJobVars

\* except HTTPException / except Exception: the events "error" and "done".
HandleJobException ==
    /\ loop.pc \in {"except_http", "except"}
    /\ job' = Emit(loop.job, <<"error", "done">>)
    /\ loop' = [loop EXCEPT !.pc = "finally"]
    /\ UNCHANGED <<jq, dirs, marker, runtimeVars>>
    /\ UNCHANGED nonJobVars

\* finally: self.queue.task_done(), and the loop waits for the next job.
TaskDone ==
    /\ loop.pc = "finally"
    /\ job' = [job EXCEPT ![loop.job].pc = "finished",
                          ![loop.job].task_done = job[loop.job].task_done + 1]
    /\ loop' = LoopIdle
    /\ UNCHANGED <<jq, dirs, marker, runtimeVars>>
    /\ UNCHANGED nonJobVars

JobNext ==
    \/ \E j \in JobIds : BenchStream(j)
    \/ GetJob \/ JobEnsureOnNvme \/ JobEnsureLoaded \/ JobRunOnce
    \/ HandleJobException \/ TaskDone

JobInit ==
    /\ StreamStart
    /\ questions = ResultShapes
    /\ tables = EmptyTables
    /\ ScoreIdle
    /\ WorkerStart
    /\ AuxIdle

JobSpec == JobInit /\ [][JobNext]_vars

(***************************************************************************)
(* The admission of a request by the worker (hf_bench): parse_hf_input,    *)
(* the test of require_revision, and then the job put on the queue         *)
(* (/bench/stream) or the stream started (/bench/complete/stream).         *)
(***************************************************************************)
\* The segments that hold white space.
HasSpace(seg) == seg = "my org"

\* [^/\s]+ : a segment that is not empty and holds no white space.
IsName(seg) == seg # "" /\ ~HasSpace(seg)

\* HF_URL_RE: ^https?://huggingface\.co/([^/\s]+/[^/\s]+)(?:/.*)?$
MatchesHfUrl(model) ==
    /\ model.url
    /\ Len(model.segs) >= 2
    /\ IsName(model.segs[1])
    /\ IsName(model.segs[2])

\* re.search(r"/tree/([^/\s]+)", model): the positions of the segments that
\* follow a segment "tree", and the group of the leftmost match.
TreeAt(model) ==
    {i \in 1..(Len(model.segs) - 1) : model.segs[i] = "tree" /\ IsName(model.segs[i + 1])}
TreeRev(model) ==
    IF TreeAt(model) = {} THEN NoneVal
    ELSE model.segs[(CHOOSE i \in TreeAt(model) : \A k \in TreeAt(model) : i <= k) + 1]

\* re.search(r"/resolve/([^/\s]+)/", model): as above, with a "/" after the
\* group.
ResolveAt(model) ==
    {i \in 1..(Len(model.segs) - 2) :
        model.segs[i] = "resolve" /\ IsName(model.segs[i + 1])}
ResolveRev(model) ==
    IF ResolveAt(model) = {} THEN NoneVal
    ELSE model.segs[(CHOOSE i \in ResolveAt(model) : \A k \in ResolveAt(model) : i <= k) + 1]

\* inferred = None; tree: inferred = tree.group(1); res: inferred = res.group(1)
Inferred(model) ==
    IF ResolveRev(model) # NoneVal THEN ResolveRev(model) ELSE TreeRev(model)

\* The revision taken from the URL even when the body gives one.
PickRevision_InferredFirst(revision, inferred) ==
    IF inferred # NoneVal THEN inferred ELSE revision

\* if revision is None: revision = inferred
PickRevision(revision, inferred) ==
    IF revision = NoneVal THEN inferred ELSE revision

\* "/" in model and " " not in model
IsPlainId(model) ==
    /\ model.url \/ Len(model.segs) >= 2
    /\ \A i \in 1..Len(model.segs) : ~HasSpace(model.segs[i])

\* parse_hf_input(model, revision): the identifier and the revision, or
\* HTTPException(400).
ParseHfInput ==
    /\ admit.pc = "parse"
    /\ admit' =
          IF MatchesHfUrl(admit.model)
          THEN [admit EXCEPT !.pc = "require_revision",
                             !.model_id = ModelText(FALSE, SubSeq(admit.model.segs, 1, 2)),
                             !.parsed = PickRevision(admit.revision, Inferred(admit.model))]
          ELSE IF IsPlainId(admit.model)
          THEN [admit EXCEPT !.pc = "require_revision",
                             !.model_id = admit.model,
                             !.parsed = admit.revision]
          ELSE [admit EXCEPT !.pc = "rejected", !.status_code = 400]
    /\ UNCHANGED <<job, jq, dirs, marker>>
    /\ UNCHANGED nonAdmitVars

\* if settings.require_revision and not revision: raise HTTPException(400);
\* revision = revision or "main"
RequireRevision ==
    /\ admit.pc = "require_revision"
    /\ admit' =
          IF admit.require_revision /\ ~Truthy(admit.parsed)
          THEN [admit EXCEPT !.pc = "rejected", !.status_code = 400]
          ELSE [admit EXCEPT !.pc = "admitted",
                             !.rev = IF Truthy(admit.parsed) THEN admit.parsed ELSE "main"]
    /\ UNCHANGED <<job, jq, dirs, marker>>
    /\ UNCHANGED nonAdmitVars

\* bench_stream: job = BenchJob(...); jq.enqueue(job)
AdmitEnqueue ==
    /\ admit.pc = "admitted"
    /\ admit.route = "bench"
    /\ admit' = [admit EXCEPT !.pc = "queued"]
    /\ job' = [job EXCEPT ![1].pc = "queued", ![1].model_id = admit.model_id]
    /\ jq' = Append(jq, 1)
    /\ UNCHANGED <<dirs, marker>>
    /\ UNCHANGED nonAdmitVars

\* complete_benchmark_stream.stream: store.ensure_on_nvme(model_id, revision)
\* is the first call made with the reference; it raises, fails after
\* os.makedirs, or leaves the directory marked.
AdmitStream ==
    /\ admit.pc = "admitted"
    /\ admit.route = "complete"
    /\ LET pair == <<admit.model_id, admit.rev>> IN
          \/ /\ admit' = [admit EXCEPT !.pc = "failed"]
             /\ UNCHANGED <<dirs, marker>>
          \/ /\ admit' = [admit EXCEPT !.pc = "failed"]
             /\ dirs' = dirs \cup {pair}
             /\ UNCHANGED marker
          \/ /\ admit' = [admit EXCEPT !.pc = "on_nvme"]
             /\ dirs' = dirs \cup {pair}
             /\ marker' = marker \cup {pair}
    /\ UNCHANGED <<job, jq>>
    /\ UNCHANGED nonAdmitVars

\* The texts of `model`, the values of `revision` and the two routes.
ModelTexts ==
    { ModelText(FALSE, <<"org", "a">>),
      ModelText(FALSE, <<"a">>),
      ModelText(FALSE, <<"my org", "a">>),
      ModelText(FALSE, <<"org", "a", "tree", "v1">>),
      ModelText(TRUE, <<"org">>),
      ModelText(TRUE, <<"org", "a">>),
      ModelText(TRUE, <<"org", "a", "tree", "v1">>),
      ModelText(TRUE, <<"org", "a", "resolve", "v2">>),
      ModelText(TRUE, <<"org", "a", "resolve", "v2", "config.json">>),
      ModelText(TRUE, <<"org", "a", "tree", "v1", "resolve", "v2", "">>),
      ModelText(TRUE, <<"tree", "b">>) }
BodyRevisions == {NoneVal, "", "v9"}
Routes == {"bench", "complete"}

AdmitInit ==
    /\ StreamStart
    /\ questions = ResultShapes
    /\ tables = EmptyTables
    /\ ScoreIdle
    /\ WorkerStart
    /\ JobStart
    /\ http = HttpDefault
    /\ exe = NoExecCall
    /\ ext = NoExtract
    /\ tot = NoTot
    /\ cat = NoPaging
    /\ disk = NoDisk
    /\ fetch = NoFetch
    /\ admit \in {AdmitRequest(route, model, revision, require) :
                     route \in Routes, model \in ModelTexts,
                     revision \in BodyRevisions, require \in BOOLEAN}

AdmitNext == ParseHfInput \/ RequireRevision \/ AdmitEnqueue \/ AdmitStream

AdmitSpec == AdmitInit /\ [][AdmitNext]_vars

(***************************************************************************)
(* ExecutionService.execute called on its own, for every executor kind.    *)
(* The sqlite executor is the one of score_sqlite.  The polars and python  *)
(* executors load the parquet tables of the dataset and run the code with  *)
(* exec().  The postgres executor sends the code to the server in one      *)
(* query message; the server runs its statements in turn, and a statement  *)
(* that runs outside a transaction block is committed with the message.    *)
(***************************************************************************)
ExecutorKinds == {"python", "polars", "sqlite", "postgres"}

\* The dataset "shop": two rows in t, none in u.
ExecTables == [t |-> << <<IntV("1"), IntV("3")>>, <<IntV("2"), IntV("1")>> >>, u |-> <<>>]

\* The codes given: SQL of one or two statements, Python, and nothing.
ExecCodes ==
    { <<"SELECT * FROM t">>, <<"SELEC">>, <<"SELECT slow">>, <<"DELETE FROM t">>,
      <<"COMMIT", "DELETE FROM t">>, <<"DELETE FROM t", "COMMIT">>,
      <<"result = tables">>, <<"raise SystemExit">>, <<>> }

\* The statements PostgreSQL parses.
SqlStatements == {"SELECT * FROM t", "SELECT slow", "DELETE FROM t", "COMMIT"}

\* executor = make_executor(executor_kind, self.locator)
MakeExecutor ==
    /\ exe.pc = "call"
    /\ exe' = [exe EXCEPT !.pc = exe.kind]
    /\ UNCHANGED tables
    /\ UNCHANGED nonExecVars

\* What sqlite3 gives for the code on a database opened with mode=ro: one
\* statement at a time, and no write.
SqliteCodeOutcomes(code, db_id) ==
    IF db_id \notin Datasets THEN SqliteOutcomes(tables, "", db_id)
    ELSE IF Len(code) = 0 THEN SqliteOutcomes(tables, "", db_id)
    ELSE IF Len(code) > 1 THEN SqliteOutcomes(tables, "SELECT 1; SELECT 1", db_id)
    ELSE IF code[1] = "DELETE FROM t"
         THEN { ExecErr("attempt to write a readonly database") }
    ELSE IF code[1] = "COMMIT"
         THEN { ExecErr("cannot commit - no transaction is active") }
    ELSE SqliteOutcomes(tables, code[1], db_id)

\* SqliteExecutor.execute: every exception is caught and returned as data.
SqliteExecutorExecute ==
    /\ exe.pc = "sqlite"
    /\ \E r \in SqliteCodeOutcomes(exe.code, exe.db_id) :
          exe' = [exe EXCEPT !.pc = "response", !.result = r]
    /\ UNCHANGED tables
    /\ UNCHANGED nonExecVars

\* PolarsExecutor / PythonExecutor .execute, before the try:
\* tables = load_parquet_tables(parquet_dir, ...) raises FileNotFoundError
\* when the directory of the dataset does not exist.
LoadParquetTables ==
    /\ exe.pc \in {"polars", "python"}
    /\ exe' = IF exe.db_id \in Datasets
              THEN [exe EXCEPT !.pc = "exec"]
              ELSE [exe EXCEPT !.pc = "raised", !.raised = "FileNotFoundError"]
    /\ UNCHANGED tables
    /\ UNCHANGED nonExecVars

\* compile(code); exec(compiled, ...); output = locals_dict.get("result"):
\* `except Exception` returns the error, an exception that is no Exception
\* (SystemExit) leaves execute.
ExecCode ==
    /\ exe.pc = "exec"
    /\ exe' = IF exe.code = <<"result = tables">>
              THEN [exe EXCEPT !.pc = "response", !.result = ExecOk(tables.t)]
              ELSE IF exe.code = <<"raise SystemExit">>
              THEN [exe EXCEPT !.pc = "raised", !.raised = "SystemExit"]
              ELSE IF exe.code = <<>>
              THEN [exe EXCEPT !.pc = "response", !.result = ExecOk(<<>>)]
              ELSE [exe EXCEPT !.pc = "response", !.result = ExecErr("SyntaxError")]
    /\ UNCHANGED tables
    /\ UNCHANGED nonExecVars

\* PostgresExecutor.execute: conn = psycopg2.connect(..., dbname=db_id), or
\* the result "Missing postgres connection info" without one.
PgConnect ==
    /\ exe.pc = "postgres"
    /\ exe' = IF exe.context = "none"
              THEN [exe EXCEPT !.pc = "response",
                               !.result = ExecErr("Missing postgres connection info")]
              ELSE IF exe.db_id \notin Datasets
              THEN [exe EXCEPT !.pc = "response",
                               !.result = ExecErr("OperationalError")]
              ELSE [exe EXCEPT !.pc = "pg_begin"]
    /\ UNCHANGED tables
    /\ UNCHANGED nonExecVars

\* self.config.read_only
PgReadOnly == TRUE

\* conn.autocommit = False; cur.execute("BEGIN READ ONLY;");
\* cur.execute("SET LOCAL statement_timeout = %s;", ...)
PgBegin ==
    /\ exe.pc = "pg_begin"
    /\ exe' = [exe EXCEPT !.pc = "pg_execute", !.in_tx = TRUE,
                          !.read_only = PgReadOnly, !.work = tables]
    /\ UNCHANGED tables
    /\ UNCHANGED nonExecVars

\* cur.execute(code, params): the server parses the whole text, then runs
\* one statement of it.  An error ends the message: psycopg2 raises, and
\* what the statements of an open transaction did is not committed.
PgExecute ==
    /\ exe.pc = "pg_execute"
    /\ exe.at <= Len(exe.code)
    /\ LET st == exe.code[exe.at] IN
          IF \E i \in 1..Len(exe.code) : exe.code[i] \notin SqlStatements
          THEN /\ exe' = [exe EXCEPT !.pc = "pg_except"]
               /\ UNCHANGED tables
          ELSE IF st = "SELECT slow"
          THEN /\ exe' = [exe EXCEPT !.pc = "pg_except"]
               /\ UNCHANGED tables
          ELSE IF st = "SELECT * FROM t"
          THEN /\ exe' = [exe EXCEPT !.at = exe.at + 1, !.rows = exe.work.t]
               /\ UNCHANGED tables
          ELSE IF st = "DELETE FROM t"
          THEN IF exe.read_only
               THEN /\ exe' = [exe EXCEPT !.pc = "pg_except"]
                    /\ UNCHANGED tables
               ELSE /\ exe' = [exe EXCEPT !.at = exe.at + 1, !.rows = <<>>,
                                          !.work = [exe.work EXCEPT !.t = <<>>]]
                    /\ UNCHANGED tables
          ELSE /\ exe' = [exe EXCEPT !.at = exe.at + 1, !.rows = <<>>,
                                     !.in_tx = FALSE, !.read_only = FALSE]
               /\ tables' = IF exe.in_tx THEN exe.work ELSE tables
    /\ UNCHANGED nonExecVars

\* The end of the query message: statements run outside a transaction
\* block are committed.  psycopg2 refuses an empty query.
PgExecuteEnd ==
    /\ exe.pc = "pg_execute"
    /\ exe.at > Len(exe.code)
    /\ IF exe.code = <<>>
       THEN /\ exe' = [exe EXCEPT !.pc = "pg_except"]
            /\ UNCHANGED tables
       ELSE /\ exe' = [exe EXCEPT !.pc = "pg_fetch"]
            /\ tables' = IF exe.in_tx THEN tables ELSE exe.work
    /\ UNCHANGED nonExecVars

\* rows = the batches of cur.fetchmany(200); conn.rollback(); the result.
PgFetchRollback ==
    /\ exe.pc = "pg_fetch"
    /\ exe' = [exe EXCEPT !.pc = "response", !.result = ExecOk(exe.rows),
                          !.in_tx = FALSE, !.work = tables]
    /\ UNCHANGED tables
    /\ UNCHANGED nonExecVars

\* except Exception: conn.rollback(); the result with the error.
PgExcept ==
    /\ exe.pc = "pg_except"
    /\ exe' = [exe EXCEPT !.pc = "response", !.result = ExecErr("Exception"),
                          !.in_tx = FALSE, !.work = tables]
    /\ UNCHANGED tables
    /\ UNCHANGED nonExecVars

\* return ExecutionResponse(executor_kind, db_id, result=res)
ExecuteReturn ==
    /\ exe.pc = "response"
    /\ exe' = [exe EXCEPT !.pc = "returned"]
    /\ UNCHANGED tables
    /\ UNCHANGED nonExecVars

ExecInit ==
    /\ StreamStart
    /\ questions = ResultShapes
    /\ tables = ExecTables
    /\ ScoreIdle
    /\ WorkerStart
    /\ JobStart
    /\ http = HttpDefault
    /\ admit = NoAdmit
    /\ ext = NoExtract
    /\ tot = NoTot
    /\ cat = NoPaging
    /\ disk = NoDisk
    /\ fetch = NoFetch
    /\ exe \in {ExecCall(kind, db_id, code, context) :
                   kind \in ExecutorKinds, db_id \in DbIds, code \in ExecCodes,
                   context \in {"dsn", "none"}}

ExecNext ==
    \/ MakeExecutor \/ SqliteExecutorExecute \/ LoadParquetTables \/ ExecCode
    \/ PgConnect \/ PgBegin \/ PgExecute \/ PgExecuteEnd \/ PgFetchRollback
    \/ PgExcept \/ ExecuteReturn

ExecSpec == ExecInit /\ [][ExecNext]_vars

(***************************************************************************)
(* The question catalog of the worker: SpiderRepository.list_questions.    *)
(***************************************************************************)
\* A row of the questions table.
Question(id, source_file, source_index, db_id) ==
    [id |-> id, source_file |-> source_file, source_index |-> source_index,
     db_id |-> db_id]

\* The questions table: two files of two questions each.
Catalog ==
    { Question(1, "dev.json", 0, "shop"), Question(2, "dev.json", 1, "shop"),
      Question(3, "train.json", 0, "shop"), Question(4, "train.json", 1, "bank") }

\* WHERE source_file = ? AND db_id = ?, each test only for a filter given.
Matching(source_file, db_id) ==
    {r \in Catalog : /\ source_file = NoneVal \/ r.source_file = source_file
                     /\ db_id = NoneVal \/ r.db_id = db_id}

\* ORDER BY source_index ASC: every order of the rows in which source_index
\* never decreases; SQL leaves the order of rows of equal source_index open.
Orderings(S) ==
    {f \in [1..Cardinality(S) -> S] :
        /\ \A i, j \in 1..Cardinality(S) : i # j => f[i] # f[j]
        /\ \A i, j \in 1..Cardinality(S) : i < j => f[i].source_index <= f[j].source_index}

\* LIMIT ? OFFSET ?
Page(rows, limit, offset) ==
    SubSeq(rows, offset + 1, IF offset + limit < Len(rows) THEN offset + limit ELSE Len(rows))

\* list_questions(source_file, db_id, limit, offset): the lists the query
\* may return.
ListQuestions(source_file, db_id, limit, offset) ==
    {Page(f, limit, offset) : f \in Orderings(Matching(source_file, db_id))}

(***************************************************************************)
(* One stream() of the worker's /bench/complete/stream, with the events it *)
(* yields.  Every call it awaits may raise, which ends the generator; the  *)
(* client may leave, and the server then closes the generator at one of    *)
(* its yields or awaits, unless the loop sees is_disconnected() first.     *)
(***************************************************************************)
\* The largest limit of a request.
MaxLimit == 2

\* sse(event, payload), kept as the event and the phase or the index.
Frame(event, arg) == [event |-> event, arg |-> arg]
Status(phase) == Frame("status", phase)

\* The generator is running.
TotRunning == tot.pc \notin {"idle", "end", "raised", "closed"}

\* An awaited call raises: the exception leaves stream().
TotRaise == tot' = [tot EXCEPT !.pc = "raised"]

\* yield status "started", yield status "downloading_or_cache_check"
TotStart ==
    /\ tot.pc = "start"
    /\ tot' = [tot EXCEPT !.pc = "ensure_on_nvme",
                          !.out = tot.out \o <<Status("started"),
                                               Status("downloading_or_cache_check")>>]
    /\ UNCHANGED nonTotVars

\* local_path = await to_thread(store.ensure_on_nvme, ...); yield status
\* "model_ready_on_nvme", yield status "loading_model_to_gpu"
TotEnsureOnNvme ==
    /\ tot.pc = "ensure_on_nvme"
    /\ \/ tot' = [tot EXCEPT !.pc = "ensure_loaded",
                             !.out = tot.out \o <<Status("model_ready_on_nvme"),
                                                  Status("loading_model_to_gpu")>>]
       \/ TotRaise
    /\ UNCHANGED nonTotVars

\* await to_thread(runtime.ensure_loaded, ...); yield status "model_loaded",
\* yield status "loading_questions"
TotEnsureLoaded ==
    /\ tot.pc = "ensure_loaded"
    /\ \/ tot' = [tot EXCEPT !.pc = "list_questions",
                             !.out = tot.out \o <<Status("model_loaded"),
                                                  Status("loading_questions")>>]
       \/ TotRaise
    /\ UNCHANGED nonTotVars

\* TotListQuestions without the warm-up: the loop follows the listing.
TotListQuestions_NoWarmup ==
    /\ tot.pc = "list_questions"
    /\ \/ \E items \in ListQuestions(tot.source_file, tot.db_id, tot.limit, tot.offset) :
             tot' = [tot EXCEPT !.pc = "loop",
                                !.items = items,
                                !.out = Append(tot.out, Status("running"))]
       \/ TotRaise
    /\ UNCHANGED nonTotVars

\* items = spider.list_questions_with_schema(...); yield status "running";
\* `if items:` leads to the warm-up, else to the loop over no item.
TotListQuestions ==
    /\ tot.pc = "list_questions"
    /\ \/ \E items \in ListQuestions(tot.source_file, tot.db_id, tot.limit, tot.offset) :
             tot' = [tot EXCEPT !.pc = IF items # <<>> THEN "warmup" ELSE "loop",
                                !.items = items,
                                !.out = Append(tot.out, Status("running"))]
       \/ TotRaise
    /\ UNCHANGED nonTotVars

\* await to_thread(runner.warmup, ...); yield status "warmup_done"
TotWarmup ==
    /\ tot.pc = "warmup"
    /\ \/ tot' = [tot EXCEPT !.pc = "loop", !.warmups = tot.warmups + 1,
                             !.out = Append(tot.out, Status("warmup_done"))]
       \/ tot' = [tot EXCEPT !.pc = "raised", !.warmups = tot.warmups + 1]
    /\ UNCHANGED nonTotVars

\* for i, item in enumerate(items): if await request.is_disconnected(): break
TotLoop ==
    /\ tot.pc = "loop"
    /\ tot' = IF tot.i >= Len(tot.items) \/ tot.disconnected
              THEN [tot EXCEPT !.pc = "yield_done"]
              ELSE [tot EXCEPT !.pc = "run_once"]
    /\ UNCHANGED nonTotVars

\* The index of every result taken as 0.
ResultIndex_Zero(i) == 0

\* "index": i
ResultIndex(i) == i

\* res = await to_thread(runner.run_once, ...); yield sse("result", payload)
TotRunOnce ==
    /\ tot.pc = "run_once"
    /\ \/ tot' = [tot EXCEPT !.pc = "loop", !.i = tot.i + 1,
                             !.out = Append(tot.out, Frame("result", ResultIndex(tot.i)))]
       \/ TotRaise
    /\ UNCHANGED nonTotVars

\* yield sse("done", {"status": "ok"})
TotYieldDone ==
    /\ tot.pc = "yield_done"
    /\ tot' = [tot EXCEPT !.pc = "end", !.out = Append(tot.out, Frame("done", "ok"))]
    /\ UNCHANGED nonTotVars

\* The client leaves.
TotDisconnect ==
    /\ TotRunning
    /\ ~tot.disconnected
    /\ tot' = [tot EXCEPT !.disconnected = TRUE]
    /\ UNCHANGED nonTotVars

\* The server closes the generator of a client that has left.
TotClose ==
    /\ TotRunning
    /\ tot.disconnected
    /\ tot' = [tot EXCEPT !.pc = "closed"]
    /\ UNCHANGED nonTotVars

TotInit ==
    /\ StreamStart
    /\ questions = ResultShapes
    /\ tables = EmptyTables
    /\ ScoreIdle
    /\ WorkerStart
    /\ JobStart
    /\ http = HttpDefault
    /\ admit = NoAdmit
    /\ exe = NoExecCall
    /\ ext = NoExtract
    /\ cat = NoPaging
    /\ disk = NoDisk
    /\ fetch = NoFetch
    /\ tot \in {TotStream(source_file, db_id, limit, offset) :
                   source_file \in {NoneVal, "dev.json"}, db_id \in {NoneVal, "bank"},
                   limit \in 1..MaxLimit, offset \in 0..1}

TotNext ==
    \/ TotStart \/ TotEnsureOnNvme \/ TotEnsureLoaded \/ TotListQuestions
    \/ TotWarmup \/ TotLoop \/ TotRunOnce \/ TotYieldDone
    \/ TotDisconnect \/ TotClose

TotSpec == TotInit /\ [][TotNext]_vars

(***************************************************************************)
(* extract_sql (hf_bench benchmark.py), on texts of a letter, a space and  *)
(* a semicolon.                                                            *)
(***************************************************************************)
\* The longest text.
MaxLen == 4

Chars == {"a", " ", ";"}
Texts == SeqsUpTo(Chars, MaxLen)

\* str.strip(): the white space at both ends removed.
RECURSIVE LStrip(_)
LStrip(t) == IF t # <<>> /\ Head(t) = " " THEN LStrip(Tail(t)) ELSE t

RECURSIVE RStrip(_)
RStrip(t) ==
    IF t # <<>> /\ t[Len(t)] = " " THEN RStrip(SubSeq(t, 1, Len(t) - 1)) ELSE t

Strip(t) == RStrip(LStrip(t))

\* ";" in t
HasSemicolon(t) == \E i \in 1..Len(t) : t[i] = ";"

\* The text before the last ";".
BeforeSemicolon_Last(t) ==
    SubSeq(t, 1, (CHOOSE i \in 1..Len(t) :
                     t[i] = ";" /\ \A k \in (i + 1)..Len(t) : t[k] # ";") - 1)

\* t.split(";", 1)[0]: the text before the first ";".
BeforeSemicolon(t) ==
    SubSeq(t, 1, (CHOOSE i \in 1..Len(t) :
                     t[i] = ";" /\ \A k \in 1..(i - 1) : t[k] # ";") - 1)

\* extract_sql(text)
extract_sql(text) ==
    LET t == Strip(text) IN
       IF HasSemicolon(t) THEN Append(Strip(BeforeSemicolon(t)), ";") ELSE t

\* sql = extract_sql(completion)
ExtractOnce ==
    /\ ext.pc = "text"
    /\ ext' = [ext EXCEPT !.pc = "once", !.once = extract_sql(ext.text)]
    /\ UNCHANGED nonExtVars

\* extract_sql applied to its result.
ExtractTwice ==
    /\ ext.pc = "once"
    /\ ext' = [ext EXCEPT !.pc = "twice", !.twice = extract_sql(ext.once)]
    /\ UNCHANGED nonExtVars

ExtractInit ==
    /\ StreamStart
    /\ questions = ResultShapes
    /\ tables = EmptyTables
    /\ ScoreIdle
    /\ WorkerStart
    /\ JobStart
    /\ http = HttpDefault
    /\ admit = NoAdmit
    /\ exe = NoExecCall
    /\ tot = NoTot
    /\ cat = NoPaging
    /\ disk = NoDisk
    /\ fetch = NoFetch
    /\ ext \in {ExtractCall(text) : text \in Texts}

ExtractNext == ExtractOnce \/ ExtractTwice

ExtractSpec == ExtractInit /\ [][ExtractNext]_vars

(***************************************************************************)
(* list_questions called page after page.  Every call runs the query anew. *)
(***************************************************************************)
\* rows = self.conn.execute(sql, params).fetchall(), for the next page.
ListPage ==
    /\ cat.pc = "list"
    /\ \E page \in ListQuestions(cat.source_file, cat.db_id, cat.limit,
                                 Len(cat.pages) * cat.limit) :
          cat' = [cat EXCEPT !.pages = Append(cat.pages, page),
                             !.pc = IF Len(page) < cat.limit THEN "end" ELSE "list"]
    /\ UNCHANGED nonCatVars

CatalogInit ==
    /\ StreamStart
    /\ questions = ResultShapes
    /\ tables = EmptyTables
    /\ ScoreIdle
    /\ WorkerStart
    /\ JobStart
    /\ http = HttpDefault
    /\ admit = NoAdmit
    /\ exe = NoExecCall
    /\ tot = NoTot
    /\ ext = NoExtract
    /\ disk = NoDisk
    /\ fetch = NoFetch
    /\ cat \in {Paging(source_file, db_id, limit) :
                   source_file \in {NoneVal, "dev.json", "train.json"},
                   db_id \in {NoneVal, "shop", "bank"}, limit \in 1..MaxLimit}

CatalogNext == ListPage

CatalogSpec == CatalogInit /\ [][CatalogNext]_vars

(***************************************************************************)
(* The directories of the model store.  A model id is the sequence of its  *)
(* characters, a revision the sequence of its parts between "/", and a     *)
(* directory the sequence of its components under model_store_dir.         *)
(***************************************************************************)
\* A model id has at most MaxIdLen characters.
MaxIdLen == 5

IdChars == {"o", "/", "_"}

\* The ids the hub can know: namespace/name, one "/" with text on both sides.
RefIds ==
    {id \in SeqsUpTo(IdChars, MaxIdLen) :
        /\ Len(id) >= 3
        /\ id[1] # "/" /\ id[Len(id)] # "/"
        /\ Cardinality({i \in 1..Len(id) : id[i] = "/"}) = 1}

\* The revisions "main" and "refs/pr".
RefRevisions == {<<"main">>, <<"refs", "pr">>}

\* model_id.replace("/", "__")
RECURSIVE SlashToUnderscores(_)
SlashToUnderscores(text) ==
    IF text = <<>> THEN <<>>
    ELSE IF Head(text) = "/" THEN <<"_", "_">> \o SlashToUnderscores(Tail(text))
    ELSE <<Head(text)>> \o SlashToUnderscores(Tail(text))

\* model_dir.replace("__", "/"): the occurrences from the left, not overlapping.
RECURSIVE UnderscoresToSlash(_)
UnderscoresToSlash(text) ==
    IF text = <<>> THEN <<>>
    ELSE IF Len(text) >= 2 /\ text[1] = "_" /\ text[2] = "_"
         THEN <<"/">> \o UnderscoresToSlash(Tail(Tail(text)))
    ELSE <<Head(text)>> \o UnderscoresToSlash(Tail(text))

\* ModelStore._local_dir: os.path.join(model_store_dir, safe, revision)
local_dir(model_id, revision) == <<SlashToUnderscores(model_id)>> \o revision

\* list_ready_models: for every directory model_dir of the store and every
\* entry revision of it that is a directory holding .READY.
list_ready_models(ready) ==
    {[model_id |-> UnderscoresToSlash(path[1]), revision |-> <<path[2]>>, path |-> path] :
        path \in {p \in ready : Len(p) = 2}}

\* ensure_on_nvme(model_id, revision) returns: the directory is made,
\* filled and marked (or was marked already).
DiskEnsureOnNvme ==
    /\ disk.pc \in {"first", "second"}
    /\ \E id \in RefIds, revision \in RefRevisions :
          disk' = [disk EXCEPT
                      !.pc = IF disk.pc = "first" THEN "second" ELSE "list",
                      !.made = disk.made \cup
                                  {[model_id |-> id, revision |-> revision]},
                      !.ready = disk.ready \cup {local_dir(id, revision)}]
    /\ UNCHANGED nonDiskVars

\* GET /models: store.list_ready_models()
DiskListReadyModels ==
    /\ disk.pc \in {"second", "list"}
    /\ disk' = [disk EXCEPT !.pc = "listed", !.listed = list_ready_models(disk.ready)]
    /\ UNCHANGED nonDiskVars

DiskInit ==
    /\ StreamStart
    /\ questions = ResultShapes
    /\ tables = EmptyTables
    /\ ScoreIdle
    /\ WorkerStart
    /\ JobStart
    /\ http = HttpDefault
    /\ admit = NoAdmit
    /\ exe = NoExecCall
    /\ tot = NoTot
    /\ ext = NoExtract
    /\ cat = NoPaging
    /\ disk = [NoDisk EXCEPT !.pc = "first"]
    /\ fetch = NoFetch

DiskNext == DiskEnsureOnNvme \/ DiskListReadyModels

DiskSpec == DiskInit /\ [][DiskNext]_vars

(***************************************************************************)
(* The fetch loop of SqliteExecutor.execute and PostgresExecutor.execute,  *)
(* on a cursor that has a number of rows to give.                          *)
(***************************************************************************)
\* cur.fetchmany(200)
FetchBatch == 200

Min(a, b) == IF a < b THEN a ELSE b

\* batch = cur.fetchmany(200); if not batch: break; rows.extend(batch);
\* fetched += len(batch); if fetched >= self.config.max_rows: break
FetchMany ==
    /\ fetch.pc = "fetch"
    /\ LET batch == Min(FetchBatch, fetch.left) IN
          fetch' = IF batch = 0
                   THEN [fetch EXCEPT !.pc = "return"]
                   ELSE [fetch EXCEPT
                            !.left = fetch.left - batch,
                            !.rows = fetch.rows + batch,
                            !.fetched = fetch.fetched + batch,
                            !.pc = IF fetch.fetched + batch >= fetch.max_rows
                                   THEN "return" ELSE "fetch"]
    /\ UNCHANGED nonFetchVars

\* return ExecutionResult(success=True, output=rows, ...)
FetchReturn ==
    /\ fetch.pc = "return"
    /\ fetch' = [fetch EXCEPT !.pc = "returned"]
    /\ UNCHANGED nonFetchVars

FetchInit ==
    /\ StreamStart
    /\ questions = ResultShapes
    /\ tables = EmptyTables
    /\ ScoreIdle
    /\ WorkerStart
    /\ JobStart
    /\ http = HttpDefault
    /\ admit = NoAdmit
    /\ exe = NoExecCall
    /\ tot = NoTot
    /\ ext = NoExtract
    /\ cat = NoPaging
    /\ disk = NoDisk
    /\ fetch \in {FetchLoop(kind, max_rows, total) :
                     kind \in {"sqlite", "postgres"},
                     max_rows \in {1, 199, 200, 201, 400, 2000},
                     total \in {0, 1, 199, 200, 201, 400, 401, 450, 2000, 2001}}

FetchNext == FetchMany \/ FetchReturn

FetchSpec == FetchInit /\ [][FetchNext]_vars

(***************************************************************************)
(* Notions shared by the properties.                                       *)
(***************************************************************************)
\* a, from its i-th element on, is a subsequence of b from its j-th on.
RECURSIVE Embeds(_, _, _, _)
Embeds(a, i, b, j) ==
    IF i > Len(a) THEN TRUE
    ELSE IF j > Len(b) THEN FALSE
    ELSE IF a[i] = b[j] THEN Embeds(a, i + 1, b, j + 1)
    ELSE Embeds(a, i, b, j + 1)

\* The frame a row of bench_events would be emitted as.
RowFrame(r) == [event |-> r.event_type, data |-> r.payload]
PersistedFrames == [i \in 1..Len(bench_events) |-> RowFrame(bench_events[i])]

\* The rows and the frames that come from an event of the worker, and the
\* error frames the coordinator makes itself.
FromWorker(data) == data.n > 0
IsWorkerRow(r) == FromWorker(r.payload)
IsWorkerFrame(f) == FromWorker(f.data)
WorkerRows == SelectSeq(bench_events, IsWorkerRow)
WorkerFrames == SelectSeq(downstream, IsWorkerFrame)
IsResultRow(r) == r.event_type = "result"
ResultRows == SelectSeq(bench_events, IsResultRow)
IsOwnError(f) == f.event = "error" /\ ~FromWorker(f.data)
OwnErrors == SelectSeq(downstream, IsOwnError)
IsTerminalKind(k) == k \in {"done", "error"}
IsTerminalRow(r) == IsTerminalKind(r.event_type)
IsTerminalFrame(f) == IsTerminalKind(f.event)

\* The verdict columns of a row of bench_items are those of this verdict.
ItemHasVerdict(it, v) ==
    /\ it.pred_exec_success = v.pred_exec_success
    /\ it.gold_exec_success = v.gold_exec_success
    /\ it.is_correct = v.is_correct
    /\ it.pred_error = v.pred_error
    /\ it.gold_error = v.gold_error
    /\ it.rows_pred = v.rows_pred
    /\ it.rows_gold = v.rows_gold
    /\ it.match_kind = v.match_kind

(***************************************************************************)
(* C1.  Every frame the caller has received is recorded in bench_events,   *)
(* for the run of the stream, with the same kind and the same payload, and *)
(* in the same order: the frames emitted are a subsequence of the rows     *)
(* persisted, in every reachable state (so the row is written before the   *)
(* frame is yielded).                                                      *)
(***************************************************************************)
C1_EmittedIsPersisted ==
    /\ Embeds(downstream, 1, PersistedFrames, 1)
    /\ \A i \in 1..Len(bench_events) :
          /\ bench_events[i].run_id = run_id
          /\ bench_events[i].payload.run_id = run_id

\* A run that emitted meta, a scored result and its own error event.
C1_Witness ==
    /\ Finished
    /\ Len(downstream) >= 3
    /\ \E i \in 1..Len(downstream) :
          downstream[i].event = "result" /\ downstream[i].data.scoring.present
    /\ OwnErrors # <<>>

(***************************************************************************)
(* C2.  The terminal status of a run is recorded exactly once: when the    *)
(* generator has finished, end_run was called exactly once for the run it  *)
(* created and the run's status is ok, client_disconnected or error; and   *)
(* ended_at is set iff the status is terminal.                             *)
(***************************************************************************)
C2_TerminalStatusOnce ==
    /\ bench_runs.ended_at <=> bench_runs.status \in TerminalStatus
    /\ (Finished /\ bench_runs.exists) =>
          /\ endRunCalls = 1
          /\ bench_runs.status \in TerminalStatus

(***************************************************************************)
(* C3.  A run has at most one terminal event (done or error) among the     *)
(* rows persisted and among the frames emitted, and the stored status      *)
(* matches it (ok with done, error with error), whatever the worker sends. *)
(* Stated for the runs in which nothing raises.                            *)
(***************************************************************************)
C3_OneTerminalEvent ==
    failedAt = "" =>
       /\ Len(SelectSeq(bench_events, IsTerminalRow)) <= 1
       /\ Len(SelectSeq(downstream, IsTerminalFrame)) <= 1
       /\ Finished =>
             \A i \in 1..Len(bench_events) :
                /\ bench_events[i].event_type = "done" => bench_runs.status = "ok"
                /\ bench_events[i].event_type = "error" => bench_runs.status = "error"

(***************************************************************************)
(* C4.  When an exception is raised after the run was opened, the          *)
(* coordinator emits exactly one error event of its own, as the last       *)
(* frame, the run is closed with status error, and the items persisted     *)
(* are still there (one per result emitted before).                        *)
(***************************************************************************)
C4_ExceptionClosesRun ==
    (Finished /\ bench_runs.exists /\ failedAt # "") =>
       /\ Len(OwnErrors) = 1
       /\ IsOwnError(downstream[Len(downstream)])
       /\ bench_runs.status = "error"

(***************************************************************************)
(* C5.  When the client disconnects after the run was opened and before    *)
(* the coordinator has reached the worker's done (while meta is being      *)
(* persisted and emitted, or while the worker is being read) and no        *)
(* repository call or scoring raises, the run ends with the stored status  *)
(* client_disconnected and no done and no error frame was emitted.         *)
(***************************************************************************)
C5_DisconnectStatus ==
    (Finished /\ discAt \in {"opened", "worker_running"}
              /\ failedAt \in {"", "worker"}) =>
       /\ bench_runs.status = "client_disconnected"
       /\ \A i \in 1..Len(downstream) : ~IsTerminalFrame(downstream[i])

(***************************************************************************)
(* C6.  meta is the first frame emitted, carries the run id made by the    *)
(* coordinator, is emitted after the run header was created, and no later  *)
(* frame has kind meta, whatever the worker sends.                         *)
(***************************************************************************)
C6_MetaOnceFirst ==
    /\ downstream # <<>> =>
          /\ downstream[1].event = "meta"
          /\ downstream[1].data.run_id = run_id
          /\ run_id \in UUIDs
          /\ bench_runs.exists /\ bench_runs.run_id = run_id
    /\ \A i \in 2..Len(downstream) : downstream[i].event # "meta"

(***************************************************************************)
(* C7.  After the initial meta, the rows persisted for the worker's events *)
(* are, in order, the first events received from the worker (each tagged   *)
(* with the run id, a result enriched with its verdict), and the frames    *)
(* emitted for them are, in order, the first of those rows: nothing is     *)
(* persisted or emitted out of receipt order, skipped or repeated, and a   *)
(* scorable result is only ever emitted with its verdict.                  *)
(***************************************************************************)
Untagged(data) == [data EXCEPT !.run_id = NoRunId, !.scoring = NoScoring]

C7_ReceiptOrder ==
    LET rows == WorkerRows
        frames == WorkerFrames
    IN  /\ bench_events # <<>> => bench_events[1].event_type = "meta"
        /\ Len(rows) <= Len(received)
        /\ \A i \in 1..Len(rows) :
              /\ rows[i].event_type = received[i].event
              /\ Untagged(rows[i].payload) = received[i].data
        /\ Len(frames) <= Len(rows)
        /\ \A i \in 1..Len(frames) :
              /\ frames[i] = RowFrame(rows[i])
              /\ (/\ frames[i].event = "result"
                  /\ frames[i].data.sql \notin {NoneVal, NonStr}
                  /\ frames[i].data.gold_sql \notin {NoneVal, NonStr}
                  /\ frames[i].data.db_id # NonStr)
                    => frames[i].data.scoring.present

\* Three events of the worker, a scored result among them, were forwarded.
C7_Witness ==
    /\ Len(WorkerFrames) >= 3
    /\ \E i \in 1..Len(WorkerFrames) :
          WorkerFrames[i].event = "result" /\ WorkerFrames[i].data.scoring.present
    /\ \E i \in 1..Len(WorkerFrames) : WorkerFrames[i].event = "status"

(***************************************************************************)
(* C8.  Events are streamed in real time: once an event of the worker has  *)
(* been received, it is eventually forwarded (or the run ends, or the      *)
(* client goes), even though the worker is still running and sends nothing *)
(* more for now.                                                           *)
(***************************************************************************)
C8_RealTime ==
    (received # <<>>) ~> (WorkerFrames # <<>> \/ Finished \/ disconnected)

(***************************************************************************)
(* C9 as claimed.  When the run is closed, every persisted result event    *)
(* with non-empty sql, gold_sql and db_id has a RunItem with the same      *)
(* index and a verdict, and there is one RunItem per persisted result.     *)
(***************************************************************************)
NonEmptyStr(x) == IsStr(x) /\ x # ""

C10_VerdictIffNonEmpty ==
    \A i \in 1..Len(ResultRows) :
       ResultRows[i].payload.scoring.present <=>
          /\ NonEmptyStr(ResultRows[i].payload.sql)
          /\ NonEmptyStr(ResultRows[i].payload.gold_sql)
          /\ \/ NonEmptyStr(ResultRows[i].payload.db_id)
             \/ ResultRows[i].payload.db_id = NoneVal

(***************************************************************************)
(* C10 as amended.  A persisted result carries a scoring verdict iff its   *)
(* sql and gold_sql are strings (the empty string included) and its        *)
(* dataset id, or the run's when the result has none or an empty one, is a *)
(* string; the scoring engine was invoked for exactly these results, with  *)
(* that dataset id and the two SQL texts, and the verdict is its answer.   *)
(***************************************************************************)
C10_VerdictIffStrings ==
    LET results == ResultRows
    IN  /\ \A i \in 1..Len(results) :
              LET p == results[i].payload
                  db == IF p.db_id \in {NoneVal, ""} THEN ReqDbId ELSE p.db_id
                  strings == /\ p.sql \notin {NoneVal, NonStr}
                             /\ p.gold_sql \notin {NoneVal, NonStr}
                             /\ db \notin {NoneVal, NonStr}
                  call == <<p.n, db, p.sql, p.gold_sql>>
              IN  /\ p.scoring.present <=> strings
                  /\ strings <=> (\E c \in 1..Len(scoreCalls) : scoreCalls[c][1] = p.n)
                  /\ strings => /\ \E c \in 1..Len(scoreCalls) : scoreCalls[c] = call
                                /\ p.scoring = ScoreSqlite(db, p.sql, p.gold_sql)
        /\ \A c \in 1..Len(scoreCalls) : \A d \in 1..Len(scoreCalls) :
              scoreCalls[c][1] = scoreCalls[d][1] => c = d
        /\ \A j \in 1..Len(bench_items) :
              (bench_items[j].match_kind # "") <=> results[j].payload.scoring.present

\* A result with an empty sql persisted with a verdict, together with a
\* result without sql persisted without one.
C10_Witness ==
    /\ \E i \in 1..Len(ResultRows) :
          /\ ResultRows[i].payload.sql = ""
          /\ ResultRows[i].payload.scoring.present
    /\ \E i \in 1..Len(ResultRows) :
          /\ ResultRows[i].payload.sql = NoneVal
          /\ ~ResultRows[i].payload.scoring.present
    /\ Len(bench_items) = 2

(***************************************************************************)
(* C11.  An error of the sandbox while a result is scored (a timeout, a    *)
(* syntax error, a runtime error, a dataset file that cannot be opened),   *)
(* for the predicted or the gold SQL, is data: the verdict says which      *)
(* execution failed and carries the error text in pred_error / gold_error, *)
(* with is_correct unknown and match_kind exec_failed, in the payload the  *)
(* coordinator holds, in the rows persisted and in the frames emitted.  It *)
(* does not end the run: the call of score_sqlite returns, no exception is *)
(* on its way and final_status is still ok while the coordinator persists  *)
(* and forwards the result, and after the frame is yielded the coordinator *)
(* waits for the next upstream event.                                      *)
(***************************************************************************)
C11_ErrorIsData(p) ==
    LET v == p.scoring
        db == IF p.db_id \in {NoneVal, ""} THEN ReqDbId ELSE p.db_id
    IN  v.present =>
          /\ v.pred_exec_success <=> v.pred_error = NoneVal
          /\ v.gold_exec_success <=> v.gold_error = NoneVal
          /\ (v.pred_exec_success /\ v.gold_exec_success) <=> v.match_kind # "exec_failed"
          /\ v.match_kind = "exec_failed" => v.is_correct = "unknown"
          /\ db = "missing" =>
                /\ v.pred_error = "unable to open database file"
                /\ v.gold_error = "unable to open database file"
          /\ db = "shop" =>
                /\ p.sql = "SELECT slow" => v.pred_error = "timeout"
                /\ p.sql = "SELECT * FROM v" => v.pred_error = "no such table: v"
                /\ p.gold_sql = "SELEC" => v.gold_error = "syntax error"
                /\ p.gold_sql = "SELECT 1; SELECT 1" =>
                      v.gold_error \notin {NoneVal, "", "syntax error", "timeout"}

C11_HoldsFailedVerdict ==
    /\ pc \in {"log_result", "insert_item", "yield_result"}
    /\ base.scoring.match_kind = "exec_failed"

C11_State ==
    /\ pc \in {"log_result", "insert_item", "yield_result"} => C11_ErrorIsData(base)
    /\ \A i \in 1..Len(bench_events) :
          bench_events[i].event_type = "result" => C11_ErrorIsData(bench_events[i].payload)
    /\ \A i \in 1..Len(downstream) :
          downstream[i].event = "result" => C11_ErrorIsData(downstream[i].data)
    /\ \A j \in 1..Len(bench_items) :
          bench_items[j].match_kind = "exec_failed" =>
             \/ bench_items[j].pred_error \notin {NoneVal, ""}
             \/ bench_items[j].gold_error \notin {NoneVal, ""}
    /\ C11_HoldsFailedVerdict => final_status = "ok" /\ failedAt = ""

C11_Step ==
    /\ (pc = "score" /\ scoreCalls' # scoreCalls) =>
          /\ pc' = "log_result"
          /\ base'.scoring.present
          /\ final_status' = "ok" /\ failedAt' = ""
    /\ (C11_HoldsFailedVerdict /\ pc = "log_result" /\ pc' # pc) =>
          \/ /\ pc' = "insert_item"
             /\ bench_events' = Append(bench_events,
                    [run_id |-> run_id, event_type |-> "result", payload |-> base])
          \/ failedAt' = "log_result"
    /\ (C11_HoldsFailedVerdict /\ pc = "insert_item" /\ pc' # pc) =>
          \/ /\ pc' = "yield_result"
             /\ Len(bench_items') = Len(bench_items) + 1
             /\ ItemHasVerdict(bench_items'[Len(bench_items')], base.scoring)
          \/ failedAt' = "insert_item"
    /\ (C11_HoldsFailedVerdict /\ pc = "yield_result" /\ pc' # pc) =>
          /\ pc' = "get"
          /\ downstream' = Append(downstream, sse("result", base))
          /\ final_status' = "ok" /\ failedAt' = ""

C11_SandboxErrorsAreData == []C11_State /\ [][C11_Step]_vars

\* A result whose predicted SQL timed out was persisted with its verdict and
\* emitted, and the coordinator then processed a further result, whose
\* dataset file could not be opened, and closed the run with status ok.
C11_Witness ==
    /\ Finished
    /\ bench_runs.status = "ok"
    /\ Len(bench_items) = 2
    /\ bench_items[1].pred_error = "timeout"
    /\ bench_items[1].is_correct = "unknown"
    /\ bench_items[2].gold_error = "unable to open database file"
    /\ \E i \in 1..Len(downstream) : \E k \in 1..Len(downstream) :
          /\ i < k
          /\ downstream[i].event = "result"
          /\ downstream[i].data.scoring.pred_error = "timeout"
          /\ downstream[k].event = "result"
          /\ downstream[k].data.scoring.pred_error = "unable to open database file"

(***************************************************************************)
(* C12.  Every verdict score_sqlite returns is consistent: match_kind is   *)
(* exec_failed iff is_correct is unknown iff pred_exec_success or          *)
(* gold_exec_success is false; is_correct = true only with both            *)
(* executions successful and match_kind sorted_string_rows; rows_pred and  *)
(* rows_gold are present iff both executions succeeded, and are then the   *)
(* numbers of rows of the two results; the two success flags are those of  *)
(* the two executions.                                                     *)
(***************************************************************************)
C12_VerdictConsistent ==
    score_pc = "returned" =>
       LET v == score_ret
           failed == ~v.pred_exec_success \/ ~v.gold_exec_success
       IN  /\ v.present
           /\ v.pred_exec_success = score_pred.success
           /\ v.gold_exec_success = score_gold.success
           /\ v.match_kind = "exec_failed" <=> v.is_correct = "unknown"
           /\ v.is_correct = "unknown" <=> failed
           /\ v.match_kind \in {"exec_failed", "sorted_string_rows"}
           /\ v.is_correct \in {"unknown", "true", "false"}
           /\ v.is_correct = "true" =>
                 /\ v.pred_exec_success /\ v.gold_exec_success
                 /\ v.match_kind = "sorted_string_rows"
           /\ (v.rows_pred # -1) <=> ~failed
           /\ (v.rows_gold # -1) <=> ~failed
           /\ ~failed => /\ v.rows_pred = Len(score_pred.output)
                         /\ v.rows_gold = Len(score_gold.output)

\* A verdict on a predicted SQL that ran and a gold SQL that failed.
C12_Witness ==
    /\ score_pc = "returned"
    /\ score_pred.success /\ score_pred.output # <<>>
    /\ ~score_gold.success
    /\ score_ret.match_kind = "exec_failed"

\* The multiset of the rows of a list.
RowBag(rows) ==
    [r \in {rows[i] : i \in 1..Len(rows)} |->
        Cardinality({i \in 1..Len(rows) : rows[i] = r})]

\* The orders in which n rows can be listed.
RowOrders(n) == {f \in [1..n -> 1..n] : \A i, j \in 1..n : f[i] = f[j] => i = j}
Permuted(rows, f) == [i \in 1..Len(rows) |-> rows[f[i]]]

(***************************************************************************)
(* C13.  On two successful result sets the verdict of score_sqlite is an   *)
(* equality of multisets of normalised rows: is_correct = true iff every   *)
(* row occurs as often in one result as in the other.  So it is reflexive  *)
(* (a result against itself is correct), symmetric (swapping the two       *)
(* results gives the same verdict), and unchanged by any permutation of    *)
(* the rows of either result.                                              *)
(***************************************************************************)
C13_SortedRowsEquality ==
    (score_pc = "returned" /\ score_pred.success /\ score_gold.success) =>
       LET ok == score_ret.is_correct
           P == score_pred.output
           G == score_gold.output
       IN  /\ ok \in {"true", "false"}
           /\ ok = "true" <=> RowBag(NormalizeRows(P)) = RowBag(NormalizeRows(G))
           /\ ScoredResult(score_pred, score_pred).is_correct = "true"
           /\ ScoredResult(score_gold, score_gold).is_correct = "true"
           /\ ScoredResult(score_gold, score_pred).is_correct = ok
           /\ \A f \in RowOrders(Len(P)) : \A g \in RowOrders(Len(G)) :
                 ScoredResult(ExecOk(Permuted(P, f)), ExecOk(Permuted(G, g))).is_correct = ok

\* pred [(2,1),(1,3)] against gold [(1,3),(2,1)] was judged correct.
C13_Witness ==
    /\ score_pc = "returned"
    /\ score_pred = ExecOk(<< <<IntV("2"), IntV("1")>>, <<IntV("1"), IntV("3")>> >>)
    /\ score_gold = ExecOk(<< <<IntV("1"), IntV("3")>>, <<IntV("2"), IntV("1")>> >>)
    /\ score_ret.is_correct = "true"

(***************************************************************************)
(* C14 as claimed.  Scoring with pred_sql = gold_sql returns is_correct =  *)
(* true and rows_pred = rows_gold, for every dataset and every SQL text.   *)
(***************************************************************************)
C14_SameSqlIsCorrect ==
    (score_pc = "returned" /\ score_args[2] = score_args[3]) =>
       /\ score_ret.is_correct = "true"
       /\ score_ret.rows_pred = score_ret.rows_gold

(***************************************************************************)
(* C14 as amended.  Scoring with pred_sql = gold_sql returns is_correct =  *)
(* true and rows_pred = rows_gold when both executions succeed and give    *)
(* the same rows, in any order, as they do for a statement whose result    *)
(* depends on the dataset alone; when an execution fails (a statement that *)
(* does not parse, a dataset that cannot be opened, a timeout of one of    *)
(* the two executions) is_correct is unknown, match_kind is exec_failed    *)
(* and no row count is recorded; when both succeed with different rows     *)
(* is_correct is false.                                                    *)
(***************************************************************************)
C14_SameSqlSameRowsIsCorrect ==
    (score_pc = "returned" /\ score_args[2] = score_args[3]) =>
       LET v == score_ret
           both == score_pred.success /\ score_gold.success
           same == RowBag(score_pred.output) = RowBag(score_gold.output)
       IN  /\ (both /\ same) => v.is_correct = "true" /\ v.rows_pred = v.rows_gold
           /\ (both /\ ~same) => v.is_correct = "false"
           /\ ~both => /\ v.is_correct = "unknown"
                       /\ v.match_kind = "exec_failed"
                       /\ v.rows_pred = -1 /\ v.rows_gold = -1
           /\ score_args[2] \in {"SELECT * FROM t", "SELECT * FROM u"} =>
                 (both <=> score_args[1] = "shop") /\ (both => same)

\* The same statement, reading a table with no row, scored against itself.
C14_Witness ==
    /\ score_pc = "returned"
    /\ score_args = <<"shop", "SELECT * FROM t", "SELECT * FROM t">>
    /\ tables.t = <<>>
    /\ score_ret.is_correct = "true"
    /\ score_ret.rows_pred = 0 /\ score_ret.rows_gold = 0

\* The model objects that are referenced, and so held in device memory: the
\* one the runtime holds, those ensure_loaded calls have loaded and not yet
\* stored or dropped, and those passed to a generation that is running.
AliveModels ==
    ({rt_model} \cup {req[r].mdl : r \in Reqs} \cup {req[r].gen_model : r \in Reqs})
       \ {NoHandle}

\* The call of ensure_loaded of request r is past its test and has not returned.
InRuntimeOp(r) ==
    req[r].pc \in {"unload_key", "unload_tokenizer", "unload_model", "load_tokenizer",
                   "load_model", "set_key", "set_tokenizer", "set_model"}

\* A generation of request r is running with the objects it was given.
Generating(r) == req[r].pc \in {"warming", "generating"}

(***************************************************************************)
(* C15.  At any instant at most one model object loaded by ensure_loaded   *)
(* is alive: the previous model is released before a new one is loaded.    *)
(***************************************************************************)
C15_AtMostOneResident == Cardinality(AliveModels) <= 1

(***************************************************************************)
(* C16.  The operations of the accelerator runtime are serialized: no two  *)
(* requests are inside ensure_loaded (with its unload) at the same time,   *)
(* and no request is inside ensure_loaded while a generation of another    *)
(* request is running.                                                     *)
(***************************************************************************)
C16_RuntimeSerialized ==
    \A r1 \in Reqs : \A r2 \in Reqs \ {r1} :
       /\ ~(InRuntimeOp(r1) /\ InRuntimeOp(r2))
       /\ ~(InRuntimeOp(r1) /\ Generating(r2))

(***************************************************************************)
(* C17.  For one (model_id, revision) at most one call of ensure_on_nvme   *)
(* is inside snapshot_download at a time.                                  *)
(***************************************************************************)
C17_SingleDownloader == \A p \in Pairs : Cardinality(writers[p]) <= 1

(***************************************************************************)
(* C18.  Whenever the .READY marker of a pair exists, a snapshot_download  *)
(* of the pair has returned and none is writing into its directory.        *)
(***************************************************************************)
C18_MarkerWrittenLast ==
    \A p \in marker : p \in completed /\ writers[p] = {}

\* Request r takes this step inside ensure_on_nvme with the marker of its
\* pair in place.
C19_StepWithMarker(r) ==
    /\ req'[r] # req[r]
    /\ req[r].pc \in {"repo_info", "check_marker"}
    /\ Pair(r) \in marker

(***************************************************************************)
(* C19 as claimed.  With the ready marker in place a call of               *)
(* ensure_on_nvme is a no-op that returns the directory of the pair: it    *)
(* goes through to its return, downloads nothing and changes nothing in    *)
(* the store.                                                              *)
(***************************************************************************)
C19_NoOpWithMarker ==
    [][\A r \in Reqs :
          C19_StepWithMarker(r) =>
             /\ storeVars' = storeVars
             /\ req'[r].pc \in {"check_marker", "ensure_loaded"}
             /\ req'[r].pc = "ensure_loaded" =>
                   /\ req'[r].local_path = LocalDir(req[r].model_id, Revision)
                   /\ req'[r].did = "cached"]_vars

(***************************************************************************)
(* C19 as amended.  With the ready marker in place a call of               *)
(* ensure_on_nvme downloads nothing and changes nothing in the store; it   *)
(* first queries the remote metadata and applies the size and safetensors  *)
(* policies, so it either raises there (hub unavailable, 413, 415) or      *)
(* returns the directory of the pair, the same at every call.              *)
(***************************************************************************)
C19_NoDownloadWithMarker ==
    [][\A r \in Reqs :
          C19_StepWithMarker(r) =>
             /\ storeVars' = storeVars
             /\ req[r].pc = "repo_info" =>
                   \/ req'[r].pc = "check_marker"
                   \/ /\ req'[r].pc = "failed"
                      /\ req'[r].error \in {"too_large", "no_safetensors", "unavailable"}
             /\ req[r].pc = "check_marker" =>
                   /\ req'[r].pc = "ensure_loaded"
                   /\ req'[r].local_path = LocalDir(req[r].model_id, Revision)
                   /\ req'[r].did = "cached"]_vars

\* Two calls for one pair have returned, the second with the marker in
\* place: both got the same directory, and one download was made.
C19_Witness ==
    \E r1 \in Reqs : \E r2 \in Reqs :
       /\ r1 # r2
       /\ req[r1].model_id = req[r2].model_id
       /\ req[r2].pc = "ensure_loaded" /\ req[r2].did = "cached"
       /\ req[r1].local_path = req[r2].local_path
       /\ req[r1].local_path = LocalDir(req[r1].model_id, Revision)
       /\ req[r1].pc = "done"
       /\ Pair(r2) \in marker

\* Request r takes this step.
StepOf(r) == req'[r] # req[r]

(***************************************************************************)
(* C20.  A call of ensure_loaded whose key equals the runtime's key while  *)
(* tokenizer and model are both held returns at once: it releases nothing, *)
(* loads nothing and leaves key, tokenizer and model as they are.  Every   *)
(* other call first runs unload (key, tokenizer and model set to None, in  *)
(* this order), only then loads a tokenizer and a model from the path it   *)
(* was given, and stores key, tokenizer and model before it returns.       *)
(***************************************************************************)
C20_EnsureLoadedStep(r) ==
    /\ (StepOf(r) /\ req[r].pc = "ensure_loaded") =>
          /\ runtimeVars' = runtimeVars
          /\ req'[r].tok = NoHandle /\ req'[r].mdl = NoHandle
          /\ IF /\ rt_key = <<req[r].model_id, Revision, Dtype>>
                /\ rt_tokenizer # NoHandle
                /\ rt_model # NoHandle
             THEN req'[r].pc = "loaded" /\ req'[r].did = "noop"
             ELSE req'[r].pc = "unload_key"
    /\ (StepOf(r) /\ req[r].pc = "unload_key") =>
          rt_key' = NoKey /\ req'[r].pc = "unload_tokenizer"
    /\ (StepOf(r) /\ req[r].pc = "unload_tokenizer") =>
          rt_tokenizer' = NoHandle /\ req'[r].pc = "unload_model"
    /\ (StepOf(r) /\ req[r].pc = "unload_model") =>
          rt_model' = NoHandle /\ req'[r].pc = "load_tokenizer"
    /\ (StepOf(r) /\ (req'[r].tok # req[r].tok \/ req'[r].mdl # req[r].mdl)) =>
          req[r].pc \in {"load_tokenizer", "load_model", "set_model"}
    /\ (StepOf(r) /\ req'[r].pc = "load_tokenizer") => req[r].pc = "unload_model"
    /\ (StepOf(r) /\ req[r].pc \in {"load_tokenizer", "load_model"}) =>
          /\ runtimeVars' = runtimeVars
          /\ req'[r].pc \in {"load_model", "set_key", "failed"}
    /\ (StepOf(r) /\ req'[r].pc = "loaded" /\ req'[r].did = "loaded") =>
          /\ req[r].pc = "set_model"
          /\ rt_model' = Handle("model", req[r].local_path, r)
    /\ (StepOf(r) /\ req[r].pc = "set_key") =>
          rt_key' = <<req[r].model_id, Revision, Dtype>>
    /\ (StepOf(r) /\ req[r].pc = "set_tokenizer") =>
          rt_tokenizer' = Handle("tokenizer", req[r].local_path, r)

C20_EnsureLoadedIdempotent == [][\A r \in Reqs : C20_EnsureLoadedStep(r)]_vars

\* One request has loaded a model and is generating with it; another, for
\* the same key, has returned from ensure_loaded without loading.
C20_Witness ==
    \E r1 \in Reqs : \E r2 \in Reqs :
       /\ r1 # r2
       /\ req[r2].pc = "loaded" /\ req[r2].did = "noop"
       /\ req[r1].pc = "generating"
       /\ rt_key = Key(req[r2].model_id)
       /\ rt_model = Handle("model", req[r1].local_path, r1)
       /\ rt_tokenizer = Handle("tokenizer", req[r1].local_path, r1)
       /\ AliveModels = {rt_model}

(***************************************************************************)
(* C21: the job queue never holds more than queue_maxsize jobs; a request  *)
(* made while the queue is full is refused at once with 429, leaves the    *)
(* queue as it was, and its job is never taken by the loop and never gets  *)
(* an event.                                                                *)
(***************************************************************************)
\* A step in which a request is refused.
C21_Refused(j) == job[j].pc = "none" /\ job'[j].pc = "rejected"

C21_State ==
    /\ Len(jq) <= QueueMaxsize
    /\ \A j \in JobIds :
          job[j].pc = "rejected" =>
             /\ job[j].status_code = 429
             /\ job[j].events = <<>>
             /\ job[j].task_done = 0
             /\ loop.job # j
             /\ \A i \in 1..Len(jq) : jq[i] # j

C21_Step ==
    \A j \in JobIds :
       /\ C21_Refused(j) => Len(jq) = QueueMaxsize /\ jq' = jq /\ loop' = loop
       /\ job[j].pc = "rejected" => job'[j] = job[j]

C21_QueueBounded == []C21_State /\ [][C21_Step]_vars

\* A request has been refused, and the loop has since finished the jobs
\* that filled the queue.
C21_Witness ==
    \E j \in JobIds :
       /\ job[j].pc = "rejected"
       /\ \A k \in JobIds \ {j} : job[k].pc = "finished"

(***************************************************************************)
(* C22: a request whose model reference is no ns/name identifier, or whose *)
(* limit is out of range, opens no run: there is no run header, no run     *)
(* event and no request to a worker for it.                                *)
(***************************************************************************)
\* The identifiers of the ns/name grammar among those of the requests.
IsNsName(model_id) == model_id = <<"org/model", FALSE>>

\* The reference of the request resolves to no ns/name identifier.
InvalidModelRef == ~IsNsName(ParseModel(http.model))

C22_NoRunForInvalid ==
    (InvalidModelRef \/ ~LimitInRange(http.limit)) =>
       /\ ~bench_runs.exists
       /\ bench_events = <<>>
       /\ producer = "idle"

(***************************************************************************)
(* C23: the revision of the body, when given, is the one kept; with none   *)
(* given and a huggingface.co URL that holds /tree/<rev> or /resolve/<rev>/ *)
(* the revision is taken from the URL; and a request that yields no        *)
(* revision while require_revision is on is refused with 400 before a job  *)
(* is put on the queue and before the store or the runtime is used.        *)
(***************************************************************************)
\* parse_hf_input has returned for the request.
Parsed == admit.pc \in {"require_revision", "admitted", "queued", "on_nvme", "failed"}

\* The revisions the text of the URL holds.
UrlRevisions == {TreeRev(admit.model), ResolveRev(admit.model)} \ {NoneVal}

\* Nothing has been done for the request.
Untouched ==
    /\ jq = <<>>
    /\ job = [j \in JobIds |-> NoJob]
    /\ dirs = {}
    /\ marker = {}
    /\ rt_key = NoKey /\ rt_tokenizer = NoHandle /\ rt_model = NoHandle

C23_State ==
    /\ (Parsed /\ admit.revision # NoneVal) => admit.parsed = admit.revision
    /\ (Parsed /\ admit.revision = NoneVal /\ MatchesHfUrl(admit.model)) =>
          IF UrlRevisions = {} THEN admit.parsed = NoneVal
          ELSE admit.parsed \in UrlRevisions
    /\ (Parsed /\ admit.require_revision /\ ~Truthy(admit.parsed)) =>
          admit.pc = "require_revision"
    /\ admit.pc \in {"parse", "require_revision", "rejected"} => Untouched
    /\ admit.pc = "rejected" => admit.status_code = 400

\* A refused request stays refused: nothing is done for it later.
C23_Step == admit.pc = "rejected" => (admit' = admit /\ Untouched')

C23_RevisionResolution == []C23_State /\ [][C23_Step]_vars

\* A URL with a revision and a body with another one has been admitted with
\* the revision of the body.
C23_Witness ==
    /\ admit.pc \in {"queued", "on_nvme"}
    /\ admit.revision = "v9"
    /\ UrlRevisions # {}
    /\ admit.rev = "v9"

(***************************************************************************)
(* C24: execute never raises: for every executor kind, every dataset id    *)
(* and every code, no exception leaves the call.                           *)
(***************************************************************************)
C24_NeverRaises == exe.raised = "" /\ exe.pc # "raised"

(***************************************************************************)
(* C25: no code executed by the sqlite or the postgres executor changes    *)
(* the dataset: its tables are at every moment those of before the call.   *)
(***************************************************************************)
C25_DatasetUnchanged ==
    exe.kind \in {"sqlite", "postgres"} => tables = ExecTables

(***************************************************************************)
(* C26: in the worker's stream the result events carry the indices 0, 1,   *)
(* 2, ... in the order of emission, there are at most `limit` of them, and *)
(* done is emitted exactly once, as the last event.                        *)
(***************************************************************************)
IsResultFrame(f) == f.event = "result"
IsDoneFrame(f) == f.event = "done"
TotResults == SelectSeq(tot.out, IsResultFrame)
TotDones == SelectSeq(tot.out, IsDoneFrame)

\* The stream is over: the generator has returned, raised or been closed.
TotOver == tot.pc \in {"end", "raised", "closed"}

\* The indices are 0, 1, 2, ... and no more than limit.
C26_Indices ==
    /\ \A k \in 1..Len(TotResults) : TotResults[k].arg = k - 1
    /\ Len(TotResults) <= tot.limit

\* As claimed: every stream that is over holds exactly one done, last.
C26_ExactlyOneDoneLast ==
    /\ C26_Indices
    /\ TotOver => /\ Len(TotDones) = 1
                  /\ IsDoneFrame(tot.out[Len(tot.out)])

\* Amended: at most one done, and nothing after it; a generator that
\* returns has emitted it; and it has then emitted one result for every
\* question listed unless the client has left.
C26_IndicesAndDone ==
    /\ C26_Indices
    /\ Len(TotDones) <= 1
    /\ \A k \in 1..Len(tot.out) : IsDoneFrame(tot.out[k]) => k = Len(tot.out)
    /\ Len(TotDones) = 1 <=> tot.pc = "end"
    /\ (tot.pc = "end" /\ ~tot.disconnected) =>
          /\ Len(TotResults) = Len(tot.items)
          /\ (tot.limit = 1 /\ tot.offset = 0 /\ tot.source_file = NoneVal
                /\ tot.db_id = NoneVal) => Len(TotResults) = 1

\* limit = 1, offset = 0: one result and done.
C26_Witness ==
    /\ tot.pc = "end"
    /\ tot.limit = 1 /\ tot.offset = 0
    /\ Len(TotResults) = 1
    /\ Len(TotDones) = 1

(***************************************************************************)
(* C27: extract_sql is idempotent, and of a text that holds a semicolon it *)
(* returns what stands before the first semicolon, without the white space *)
(* around it, followed by that one semicolon.                              *)
(***************************************************************************)
CountSemicolons(t) == Cardinality({i \in 1..Len(t) : t[i] = ";"})

\* t is body with white space before and after it.
Padded(t, body) ==
    \E a, b \in 0..Len(t) :
       /\ a + Len(body) + b = Len(t)
       /\ \A i \in 1..a : t[i] = " "
       /\ \A i \in 1..Len(body) : t[a + i] = body[i]
       /\ \A i \in 1..b : t[a + Len(body) + i] = " "

C27_ExtractIdempotent ==
    /\ ext.pc = "twice" => ext.twice = ext.once
    /\ (ext.pc \in {"once", "twice"} /\ HasSemicolon(ext.text)) =>
          LET n == Len(ext.once)
              body == SubSeq(ext.once, 1, n - 1)
              first == CHOOSE i \in 1..Len(ext.text) :
                          ext.text[i] = ";" /\ \A k \in 1..(i - 1) : ext.text[k] # ";"
          IN /\ n >= 1
             /\ ext.once[n] = ";"
             /\ CountSemicolons(ext.once) = 1
             /\ body = <<>> \/ (body[1] # " " /\ body[n - 1] # " ")
             /\ Padded(SubSeq(ext.text, 1, first - 1), body)

\* A text with two semicolons and white space has been extracted twice.
C27_Witness ==
    /\ ext.pc = "twice"
    /\ CountSemicolons(ext.text) = 2
    /\ ext.text[1] = " "
    /\ ext.once = <<"a", ";">>

(***************************************************************************)
(* C28: list_questions returns the questions by source split and then by   *)
(* source index, ascending, whatever the filters, so that the pages asked  *)
(* for one after the other hold every matching question once.              *)
(***************************************************************************)
\* a comes before b by source split, then by source index.
SplitIndexLess(a, b) ==
    \/ a.source_file = "dev.json" /\ b.source_file = "train.json"
    \/ a.source_file = b.source_file /\ a.source_index < b.source_index

RECURSIVE Concat(_)
Concat(pages) == IF pages = <<>> THEN <<>> ELSE Head(pages) \o Concat(Tail(pages))

C28_OrderedPages ==
    LET all == Concat(cat.pages) IN
       /\ \A i, j \in 1..Len(all) : i < j => SplitIndexLess(all[i], all[j])
       /\ cat.pc = "end" =>
             {all[i] : i \in 1..Len(all)} = Matching(cat.source_file, cat.db_id)

(***************************************************************************)
(* C29.  With several complete-benchmark requests on one worker, every     *)
(* generation of a request runs with the tokenizer and the model loaded    *)
(* from the directory of that request's own model: a request that loads    *)
(* another model later does not change the model of a run in progress.     *)
(***************************************************************************)
C29_OwnModel ==
    \A r \in Reqs :
       Generating(r) =>
          /\ req[r].gen_tokenizer.path = LocalDir(req[r].model_id, Revision)
          /\ req[r].gen_model.path = LocalDir(req[r].model_id, Revision)

(***************************************************************************)
(* C30.  The coordinator sees the client's departure between two upstream  *)
(* events and aborts the upstream connection: once the client has gone, at *)
(* most one further event is read from the worker, and the worker's        *)
(* response is not read to its end.  Stated for the client that went       *)
(* before the upstream connection was opened: every event the producer has *)
(* read was then read after the departure.                                 *)
(***************************************************************************)
C30_UpstreamAborted ==
    discAt \in {"unopened", "opened"} =>
       /\ Len(received) <= 1
       /\ Len(received) = 1 => producer # "ended"

(***************************************************************************)
(* C31.  The slot of GpuRuntime is whole or empty: in every state in which *)
(* no call of ensure_loaded is in progress, a key that is set comes with a *)
(* tokenizer and a model that were loaded from the path given with that    *)
(* key, also after a failed load and after concurrent ensure_loaded calls. *)
(***************************************************************************)
C31_SlotWholeOrEmpty ==
    (\A r \in Reqs : ~InRuntimeOp(r)) =>
       \A id \in ModelIds :
          rt_key = Key(id) =>
             /\ rt_tokenizer # NoHandle /\ rt_model # NoHandle
             /\ rt_tokenizer.path = LocalDir(id, Revision)
             /\ rt_model.path = LocalDir(id, Revision)

(***************************************************************************)
(* C32 as claimed.  When the insert of the item of a result fails, the     *)
(* result is not emitted, an error event is emitted and the run ends with  *)
(* the stored status error.                                                *)
(***************************************************************************)
\* The run is over and insert_item raised for the last persisted result.
InsertFailed == Finished /\ Len(ResultRows) > Len(bench_items)

\* The result frame of the last persisted result event was emitted.
LastResultEmitted ==
    \E i \in 1..Len(downstream) :
       /\ downstream[i].event = "result"
       /\ downstream[i].data.index = ResultRows[Len(ResultRows)].payload.index

C32_State ==
    /\ \A i \in 1..Len(downstream) :
          downstream[i].event = "result" =>
             /\ \E j \in 1..Len(bench_events) :
                   /\ bench_events[j].event_type = "result"
                   /\ bench_events[j].payload = downstream[i].data
             /\ \E j \in 1..Len(bench_items) :
                   bench_items[j].idx = downstream[i].data.index
    /\ InsertFailed =>
          /\ ~LastResultEmitted
          /\ final_status = "error"
          /\ Len(OwnErrors) <= 1
          /\ bench_runs.status \in {"error", "running"}
          /\ failedAt # "end_run" => bench_runs.status = "error"
          /\ failedAt = "insert_item" =>
                /\ downstream # <<>> /\ IsOwnError(downstream[Len(downstream)])
                /\ pc = "returned"
          /\ failedAt # "insert_item" => pc = "raised"

C32_Step ==
    /\ bench_items' # bench_items =>
          /\ bench_events # <<>>
          /\ bench_events[Len(bench_events)] =
                [run_id |-> run_id, event_type |-> "result", payload |-> base]
          /\ Len(bench_items') = Len(bench_items) + 1
          /\ bench_items'[Len(bench_items')].idx = base.index
          /\ \A i \in 1..Len(downstream) :
                ~(downstream[i].event = "result" /\ downstream[i].data.index = base.index)
    /\ (/\ Len(downstream') > Len(downstream)
        /\ downstream'[Len(downstream')].event = "result") =>
          /\ downstream'[Len(downstream')].data = base
          /\ bench_items # <<>>
          /\ bench_items[Len(bench_items)].idx = base.index
          /\ bench_events[Len(bench_events)].payload = base

ScoringWhenClientLeft == disconnected /\ pc = "score"

C33_InFlightResultSuppressed == [](ScoringWhenClientLeft => [](pc # "get"))

(***************************************************************************)
(* C34 as claimed.  A job whose model was stored and loaded (its six       *)
(* status events were put) has exactly one result event before its done.   *)
(***************************************************************************)
CountKind(events, kind) == Cardinality({i \in 1..Len(events) : events[i] = kind})

JobOver(j) == job[j].pc = "finished"

C34_State ==
    \A j \in JobIds :
       /\ job[j].task_done = (IF JobOver(j) THEN 1 ELSE 0)
       /\ job[j].pc = "taken" <=> (loop.pc # "get" /\ loop.job = j)
       /\ CountKind(job[j].events, "done") <= 1
       /\ JobOver(j) =>
             LET events == job[j].events
                 n == Len(events)
             IN /\ n >= 2
                /\ events[n] = "done"
                /\ CountKind(events, "done") = 1
                /\ events[n - 1] \in {"result", "error"}
                /\ CountKind(events, "result") + CountKind(events, "error") = 1
                /\ \A i \in 1..(n - 2) : events[i] = "status"
                /\ events[n - 1] = "result" => n = 8

C34_Step ==
    \A j \in JobIds :
       (job[j].pc # "taken" /\ job'[j].pc = "taken") =>
          /\ loop.pc = "get"
          /\ jq # <<>> /\ Head(jq) = j /\ jq' = Tail(jq)
          /\ \A k \in JobIds : job[k].pc # "taken"

C35_DirectoryInvertible ==
    /\ \A r1, r2 \in disk.made :
          r1 # r2 => local_dir(r1.model_id, r1.revision) # local_dir(r2.model_id, r2.revision)
    /\ disk.pc = "listed" =>
          {[model_id |-> l.model_id, revision |-> l.revision] : l \in disk.listed}
             = disk.made

(***************************************************************************)
(* C36.  The comparison of score_sqlite confuses neither NULL with a text  *)
(* nor a number with a text: is_correct is true only if the two results    *)
(* hold the same rows of values as often, where NULL equals NULL alone and *)
(* an integer never equals a text that prints alike.                       *)
(***************************************************************************)
C36_NoCoercion ==
    (score_pc = "returned" /\ score_ret.is_correct = "true") =>
       RowBag(score_pred.output) = RowBag(score_gold.output)

(***************************************************************************)
(* C37.  Whatever max_rows >= 1 is configured and whatever the query       *)
(* gives, the sandbox returns at most max_rows rows: the output is cut     *)
(* there when the query has more, and all its rows are returned when it    *)
(* has no more than max_rows.                                              *)
(***************************************************************************)
C37_AtMostMaxRows ==
    fetch.pc = "returned" =>
       /\ fetch.rows <= fetch.max_rows
       /\ fetch.rows + fetch.left <= fetch.max_rows => fetch.left = 0

(***************************************************************************)
(* C38.  The events read from the worker and not yet processed are bounded *)
(* by a number that does not grow with the run: a response of the greatest *)
(* length is never held whole in the queue, some of its events are         *)
(* processed before its last one is read.                                  *)
(***************************************************************************)
C38_UnprocessedBounded == Len(q) < MaxUp

(***************************************************************************)
(* C39.  ensure_on_nvme rejects a repository above the size cap (413) or,  *)
(* under the safetensors-only policy, without safetensors weights (415)    *)
(* before it touches the store: the step that rejects makes no directory,  *)
(* starts no download and writes no marker, whether or not the marker of   *)
(* the reference exists, and the rejected request has no local path.       *)
(***************************************************************************)
Rejected(r) == req[r].pc = "failed" /\ req[r].error \in {"too_large", "no_safetensors"}

C39_State ==
    \A r \in Reqs :
       Rejected(r) =>
          /\ req[r].local_path = NoPath
          /\ req[r].did = ""
          /\ \A p \in Pairs : r \notin writers[p]

C39_Step ==
    \A r \in Reqs :
       (~Rejected(r) /\ Rejected(r)') =>
          /\ req[r].pc = "repo_info"
          /\ dirs' = dirs /\ marker' = marker
          /\ writers' = writers /\ completed' = completed

C39_RejectedBeforeStorage == []C39_State /\ [][C39_Step]_vars

\* A request was rejected for its size, for a reference that another request
\* downloaded and marked, and its own call made no directory: the store
\* holds the directory of that reference alone.
C39_Witness ==
    \E r1, r2 \in Reqs :
       /\ Rejected(r1) /\ req[r1].error = "too_large"
       /\ req[r2].did = "downloaded" /\ req[r2].model_id = req[r1].model_id
       /\ Pair(r1) \in marker
       /\ dirs = {Pair(r1)}

(***************************************************************************)
(* C40.  A worker run with at least one question performs exactly one      *)
(* warm-up, after the model is loaded and before its first measured        *)
(* generation, and emits warmup_done before its first result; a run with   *)
(* no question performs no warm-up.                                        *)
(***************************************************************************)
FramesAt(f) == {k \in 1..Len(tot.out) : tot.out[k] = f}
ResultsAt == {k \in 1..Len(tot.out) : IsResultFrame(tot.out[k])}

\* The run has passed the warm-up of line 112: it is in its loop, in a
\* measured generation, or past them.
TotPastWarmup == tot.pc \in {"loop", "run_once", "yield_done", "end"}

C40_State ==
    /\ tot.warmups <= 1
    /\ tot.items = <<>> => tot.warmups = 0
    /\ TotPastWarmup => tot.warmups = (IF tot.items # <<>> THEN 1 ELSE 0)
    /\ (tot.pc = "run_once" \/ ResultsAt # {}) =>
          /\ tot.warmups = 1
          /\ Cardinality(FramesAt(Status("warmup_done"))) = 1
          /\ \A w \in FramesAt(Status("warmup_done")) : \A k \in ResultsAt : w < k

\* The step that performs the warm-up: the model is loaded, the list holds
\* a question and no generation has been measured.
C40_Step ==
    tot'.warmups # tot.warmups =>
       /\ tot.warmups = 0 /\ tot'.warmups = 1
       /\ FramesAt(Status("model_loaded")) # {}
       /\ tot.items # <<>>
       /\ tot.i = 0 /\ ResultsAt = {}

C40_OneWarmupBeforeResults == []C40_State /\ [][C40_Step]_vars

\* A run of two questions that has returned: one warm-up, two results.
C40_Witness ==
    /\ tot.pc = "end"
    /\ Len(tot.items) = 2
    /\ Len(TotResults) = 2
    /\ tot.warmups = 1

====
